---- MODULE Spec2Model ----
(***************************************************************************)
(* Transcription pipeline of byrondaniels/podcasts:                        *)
(*   - transcribe_audio_with_retry   (whisper-lambda/lambda/handler.py)    *)
(*   - merge lambda_handler          (merge-transcript-lambda/.../handler) *)
(*   - OrchestrationService          (server/app/services/orchestration)   *)
(*   - BulkTranscribeService         (server/app/services/bulk_transcribe) *)
(*   - transcription routes          (server/app/routes)                   *)
(* Five specifications share the module: SpecRetry, SpecMerge, Spec (one   *)
(* transcribe_episode run), SpecJob (one bulk job) and SpecApi (the        *)
(* requests for one episode).  Each leaves the other components'           *)
(* variables at their idle values.                                         *)
(***************************************************************************)
EXTENDS Integers, Sequences, FiniteSets, TLC

VARIABLES
    \* ---- transcribe_audio_with_retry ----
    r_pc,            \* "running" | "returned" | "raised"
    attempt,         \* loop variable of `for attempt in range(max_retries + 1)`
    retry_delay,     \* local retry_delay
    slept,           \* sequence of the time.sleep() arguments so far
    history,         \* outcome of every attempt made so far
    r_raised,        \* the exception that left the function (NoError if none)
    \* ---- merge lambda_handler, called on its own ----
    m_pc,            \* "request" | "responded"
    m_event,         \* the event given to the handler
    m_fault,         \* environment fault met by this invocation
    m_response,      \* the handler's return value
    \* ---- stores shared by the services ----
    s3,              \* chunk transcript objects: chunk index -> text or NoObject
    final,           \* transcripts/<episode>/final.txt : text or NoObject
    episode,         \* the persisted episode document (MongoDB)
    \* ---- OrchestrationService.transcribe_episode ----
    pc,              \* position of the coroutine
    max_concurrent,  \* max_concurrent_transcriptions
    chunk_result,    \* response of the chunking service
    task,            \* per chunk task: "waiting" | "inflight" | "done"
    semaphore,       \* value of the asyncio.Semaphore
    gathered,        \* per chunk task: what asyncio.gather collected
    issued,          \* per chunk: number of POSTs to the whisper service
    transcription_results,  \* processed_results of _transcribe_chunks_parallel
    merge_request,   \* payload sent to the merge service (NoRequest if none)
    calls,           \* number of calls made to each collaborator
    ret,             \* return value of transcribe_episode (NoReturn if none)
    \* ---- BulkTranscribeService: one job ----
    jobs_collection, \* the persisted job document (NoJob before create_job)
    job,             \* process_job's local `job`, read once before the loop
    j_pc,            \* position of process_job
    idx,             \* loop variable of `for idx, episode_data in enumerate(episodes)`
    running_jobs,    \* per BulkTranscribeService instance: its running_jobs entry
    cancels,         \* every cancel_job call so far, with what it returned
    started,         \* indices of the units the loop has begun, in order
    \* ---- transcription routes of the API, one episode ----
    audio_url,       \* whether the episode document carries an audio_url
    runs,            \* background transcribe_episode tasks: state of each
    executions,      \* trigger requests that got past their checks: state of each
    responses,       \* every request handled so far, with its answer
    \* ---- create_job and create_chunks, called on their own ----
    rss_feed,        \* the episodes parse_rss_feed returned, in feed order
    max_episodes,    \* create_job's max_episodes (NoLimit for None)
    audio,           \* len(audio): the duration of the audio in milliseconds
    chunks_metadata, \* what create_chunks returned (NotCalled before the call)
    \* ---- the transcription handler, invoked on its own ----
    w_pc,            \* "idle", "request" or "responded"
    w_event,         \* the event the handler is invoked with
    w_environ,       \* os.environ.get('S3_BUCKET')
    w_fault,         \* the step of this invocation that raises, if any
    w_calls,         \* downloads, transcriptions and uploads made
    w_response       \* what the handler returned

retryVars == <<r_pc, attempt, retry_delay, slept, history, r_raised>>
mergeVars == <<m_pc, m_event, m_fault, m_response>>
storeVars == <<s3, final, episode>>
pipeVars  == <<pc, max_concurrent, chunk_result, task, semaphore,
               gathered, issued, transcription_results, merge_request, calls, ret>>
jobVars   == <<jobs_collection, job, j_pc, idx, running_jobs, cancels, started>>
apiVars   == <<audio_url, runs, executions, responses>>
fnVars    == <<rss_feed, max_episodes, audio, chunks_metadata>>
whVars    == <<w_pc, w_event, w_environ, w_fault, w_calls, w_response>>
vars      == <<retryVars, mergeVars, storeVars, pipeVars, jobVars, apiVars, fnVars, whVars>>

(***************************************************************************)
(* Bounds of the model                                                     *)
(***************************************************************************)
MaxChunks == 3       \* chunks a chunking response may carry
MaxConcurrent == 2   \* largest max_concurrent_transcriptions tried
MaxTranscripts == 3  \* transcripts in a merge request made on its own
MaxIndex == 2        \* largest chunk_index in a merge request made on its own
MaxEpisodes == 3     \* episodes of a bulk job
MaxCancels == 2      \* cancel_job calls made on a bulk job
MaxRequests == 3     \* requests made for the episode
MaxAudioChunks == 3  \* chunk durations an audio may span
MaxOffset == 20      \* milliseconds tried around each multiple of the chunk duration
MaxFeed == 3         \* episodes of a parsed feed
MaxDate == 2         \* distinct published dates in a feed

(***************************************************************************)
(* Generic helpers                                                         *)
(***************************************************************************)
RECURSIVE SumSeq(_)
SumSeq(s) == IF s = <<>> THEN 0 ELSE Head(s) + SumSeq(Tail(s))

RECURSIVE Pow2(_)
Pow2(n) == IF n = 0 THEN 1 ELSE 2 * Pow2(n - 1)

Range(s) == {s[i] : i \in DOMAIN s}

(***************************************************************************)
(* transcribe_audio_with_retry                                             *)
(***************************************************************************)
MAX_RETRIES == 3
INITIAL_RETRY_DELAY == 1

NoError == [kind |-> "none"]

\* str(e) of a failed attempt, reduced to the substrings the handler looks for.
ErrorMessages ==
    [kind : {"error"}, rate_limit : BOOLEAN, c429 : BOOLEAN,
     timeout : BOOLEAN, c503 : BOOLEAN]

\* "rate_limit" in error_message.lower() or "429" in error_message
IsRateLimit(e) == e.rate_limit \/ e.c429
\* "timeout" in error_message.lower() or "503" in error_message
IsServiceTimeout(e) == e.timeout \/ e.c503

Success == [kind |-> "success"]

EnterRetry ==
    /\ r_pc = "running"
    /\ attempt = 0
    /\ retry_delay = INITIAL_RETRY_DELAY
    /\ slept = <<>>
    /\ history = <<>>
    /\ r_raised = NoError

IdleRetry ==
    /\ r_pc = "idle"
    /\ attempt = 0
    /\ retry_delay = INITIAL_RETRY_DELAY
    /\ slept = <<>>
    /\ history = <<>>
    /\ r_raised = NoError

\* The attempt's call returns a transcript: `return transcript`.
AttemptSucceeds ==
    /\ r_pc = "running"
    /\ attempt \in 0..MAX_RETRIES
    /\ history' = Append(history, Success)
    /\ r_pc' = "returned"
    /\ UNCHANGED <<attempt, retry_delay, slept, r_raised>>
    /\ UNCHANGED <<mergeVars, storeVars, pipeVars, jobVars, apiVars, fnVars, whVars>>

\* Mutant: the delay is doubled before the sleep instead of after it.
AttemptFailsDoubleFirst(e) ==
    /\ r_pc = "running"
    /\ attempt \in 0..MAX_RETRIES
    /\ history' = Append(history, e)
    /\ UNCHANGED <<mergeVars, storeVars, pipeVars, jobVars, apiVars, fnVars, whVars>>
    /\ IF attempt < MAX_RETRIES /\ (IsRateLimit(e) \/ IsServiceTimeout(e))
         THEN /\ slept' = Append(slept, retry_delay * 2)
              /\ retry_delay' = retry_delay * 2
              /\ attempt' = attempt + 1
              /\ UNCHANGED <<r_pc, r_raised>>
         ELSE /\ r_pc' = "raised"
              /\ r_raised' = e
              /\ UNCHANGED <<attempt, retry_delay, slept>>

\* Mutant: every error is retried, whatever its message.
AttemptFailsRetryAll(e) ==
    /\ r_pc = "running"
    /\ attempt \in 0..MAX_RETRIES
    /\ history' = Append(history, e)
    /\ UNCHANGED <<mergeVars, storeVars, pipeVars, jobVars, apiVars, fnVars, whVars>>
    /\ IF attempt < MAX_RETRIES
         THEN /\ slept' = Append(slept, retry_delay)
              /\ retry_delay' = retry_delay * 2
              /\ attempt' = attempt + 1
              /\ UNCHANGED <<r_pc, r_raised>>
         ELSE /\ r_pc' = "raised"
              /\ r_raised' = e
              /\ UNCHANGED <<attempt, retry_delay, slept>>

\* Mutant: the loop gives up one attempt early (attempt < max_retries - 1).
AttemptFailsOneShort(e) ==
    /\ r_pc = "running"
    /\ attempt \in 0..MAX_RETRIES
    /\ history' = Append(history, e)
    /\ UNCHANGED <<mergeVars, storeVars, pipeVars, jobVars, apiVars, fnVars, whVars>>
    /\ IF attempt < MAX_RETRIES - 1 /\ (IsRateLimit(e) \/ IsServiceTimeout(e))
         THEN /\ slept' = Append(slept, retry_delay)
              /\ retry_delay' = retry_delay * 2
              /\ attempt' = attempt + 1
              /\ UNCHANGED <<r_pc, r_raised>>
         ELSE /\ r_pc' = "raised"
              /\ r_raised' = e
              /\ UNCHANGED <<attempt, retry_delay, slept>>

\* The attempt's call raises e: the except branch.
AttemptFails(e) ==
    /\ r_pc = "running"
    /\ attempt \in 0..MAX_RETRIES
    /\ history' = Append(history, e)
    /\ UNCHANGED <<mergeVars, storeVars, pipeVars, jobVars, apiVars, fnVars, whVars>>
    /\ IF attempt < MAX_RETRIES
         THEN IF IsRateLimit(e) \/ IsServiceTimeout(e)
                THEN /\ slept' = Append(slept, retry_delay)
                     /\ retry_delay' = retry_delay * 2
                     /\ attempt' = attempt + 1
                     /\ UNCHANGED <<r_pc, r_raised>>
                ELSE /\ r_pc' = "raised"
                     /\ r_raised' = e
                     /\ UNCHANGED <<attempt, retry_delay, slept>>
         ELSE /\ r_pc' = "raised"
              /\ r_raised' = e
              /\ UNCHANGED <<attempt, retry_delay, slept>>

NextRetry ==
    \/ AttemptSucceeds
    \/ \E e \in ErrorMessages : AttemptFails(e)

(***************************************************************************)
(* Text: a sequence of tokens.  A chunk's words are tagged with the chunk  *)
(* they were spoken in, so the merged text shows where each word came from.*)
(***************************************************************************)
SP == [k |-> "sp", v |-> 0]               \* " "
NL == [k |-> "nl", v |-> 0]               \* "\n"
Word(i) == [k |-> "w", v |-> i]           \* a word spoken in chunk i
Stamp(hms) == [k |-> "ts", v |-> hms]     \* "[HH:MM:SS]"
IsSpace(t) == t.k \in {"sp", "nl"}

NoObject == <<[k |-> "absent", v |-> 0]>> \* no such key in the bucket
NoKey == -1                               \* None

\* str.strip()
RECURSIVE LStrip(_)
LStrip(s) == IF s # <<>> /\ IsSpace(Head(s)) THEN LStrip(Tail(s)) ELSE s

RECURSIVE RStrip(_)
RStrip(s) ==
    IF s # <<>> /\ IsSpace(s[Len(s)]) THEN RStrip(SubSeq(s, 1, Len(s) - 1)) ELSE s

Strip(s) == RStrip(LStrip(s))

IsWord(t) == t.k = "w"
\* str.split(): the words of a text
Split(s) == SelectSeq(s, IsWord)

\* What the transcription service may hear in chunk i.
ChunkTexts(i) ==
    { <<SP>>,
      <<Word(i)>>,
      <<SP, Word(i), SP, Word(i), NL>> }

(***************************************************************************)
(* chunking-lambda create_chunks: chunk i starts at i * CHUNK_DURATION     *)
(***************************************************************************)
CHUNK_DURATION_SECONDS == 1200

Chunk(i) ==
    [chunk_index |-> i, s3_key |-> i, start_time_seconds |-> i * CHUNK_DURATION_SECONDS]

create_chunks(n) == [j \in 1..n |-> Chunk(j - 1)]

(***************************************************************************)
(* merge-transcript-lambda                                                 *)
(***************************************************************************)
TIMESTAMP_INTERVAL == 300

NoFault == [kind |-> "none", key |-> NoKey]

\* format_timestamp: [HH:MM:SS] read as the number HHMMSS
format_timestamp(seconds) ==
    LET hours   == seconds \div 3600
        minutes == (seconds % 3600) \div 60
        secs    == seconds % 60
    IN  hours * 10000 + minutes * 100 + secs

\* sorted(transcripts, key=lambda x: x['chunk_index'])  (stable)
RECURSIVE InsertByIndex(_, _)
InsertByIndex(t, sorted) ==
    IF sorted = <<>> THEN <<t>>
    ELSE IF Head(sorted).chunk_index <= t.chunk_index
           THEN <<Head(sorted)>> \o InsertByIndex(t, Tail(sorted))
           ELSE <<t>> \o sorted

\* Mutant: the transcripts are merged in the order received.
Unsorted(ts) == ts

RECURSIVE SortedByChunkIndexFrom(_, _)
SortedByChunkIndexFrom(ts, acc) ==
    IF ts = <<>> THEN acc
    ELSE SortedByChunkIndexFrom(Tail(ts), InsertByIndex(Head(ts), acc))

SortedByChunkIndex(ts) == SortedByChunkIndexFrom(ts, <<>>)

\* download_transcript_from_s3 raises when the object cannot be fetched
DownloadFails(store, fault, key) ==
    \/ key \notin DOMAIN store
    \/ store[key] = NoObject
    \/ (fault.kind = "download" /\ fault.key = key)

\* The loop of merge_transcripts over transcripts[from..], with its three
\* accumulators.  Result: [raised, parts, total_words].
RECURSIVE MergeLoop(_, _, _, _, _, _)
MergeLoop(transcripts, store, fault, parts, total_words, last_ts) ==
    IF transcripts = <<>>
      THEN [raised |-> FALSE, parts |-> parts, total_words |-> total_words]
    ELSE
      LET meta == Head(transcripts)
          start_time_seconds == meta.start_time_seconds
      IN  IF DownloadFails(store, fault, meta.transcript_s3_key)
            THEN [raised |-> TRUE, parts |-> parts, total_words |-> total_words]
          ELSE
            LET text == Strip(store[meta.transcript_s3_key])
                stamp == start_time_seconds - last_ts >= TIMESTAMP_INTERVAL
                header == IF stamp
                            THEN <<NL, Stamp(format_timestamp(start_time_seconds)), NL>>
                            ELSE <<>>
            IN  IF text = <<>>
                  THEN MergeLoop(Tail(transcripts), store, fault,
                                 parts, total_words, last_ts)
                  ELSE MergeLoop(Tail(transcripts), store, fault,
                                 parts \o header \o text \o <<NL, NL>>,
                                 total_words + Len(Split(text)),
                                 IF stamp THEN start_time_seconds ELSE last_ts)

merge_transcripts(transcripts, store, fault) ==
    LET r == MergeLoop(transcripts, store, fault, <<>>, 0, -TIMESTAMP_INTERVAL)
    IN  [raised |-> r.raised, merged_text |-> Strip(r.parts),
         total_words |-> r.total_words]

MergeError(msg, missing) ==
    [status |-> "error", error_message |-> msg, missing |-> missing,
     transcript_s3_key |-> "", total_words |-> 0]

FINAL_KEY == "final.txt"

\* [r.get("chunk_index") for r in ...]
Indices(ts) == [j \in DOMAIN ts |-> ts[j].chunk_index]

\* Mutant: expected_indices = set(range(1, n))
MissingIndicesFromOne(sorted_transcripts) ==
    (1 .. Len(sorted_transcripts) - 1)
        \ {sorted_transcripts[j].chunk_index : j \in DOMAIN sorted_transcripts}

\* expected_indices - actual_indices
MissingIndices(sorted_transcripts) ==
    (0 .. Len(sorted_transcripts) - 1)
        \ {sorted_transcripts[j].chunk_index : j \in DOMAIN sorted_transcripts}

\* lambda_handler(event): [response, final, status]; final is the object at
\* the final key after the call, status the episode document's "status"
\* field after the call.
merge_lambda_handler(event, store, old_final, old_status, fault) ==
    LET unchanged(resp) ==
            [response |-> resp, final |-> old_final, status |-> old_status]
        sorted_transcripts == SortedByChunkIndex(event.transcripts)
        missing_indices == MissingIndices(sorted_transcripts)
        merged == merge_transcripts(sorted_transcripts, store, fault)
        \* the except branch: record the error unless MongoDB is the fault
        failed(new_final) ==
            [response |-> MergeError("Error merging transcripts", {}),
             final |-> new_final,
             status |-> IF fault.kind = "mongo" THEN old_status ELSE "error"]
    IN  IF event.episode_id = ""
          THEN unchanged(MergeError("Missing required parameter: episode_id", {}))
        ELSE IF event.transcripts = <<>>
          THEN unchanged(MergeError("No transcripts provided", {}))
        ELSE IF event.s3_bucket = ""
          THEN unchanged(MergeError("S3 bucket not specified", {}))
        ELSE IF missing_indices # {}
          THEN unchanged(MergeError("Missing chunks", missing_indices))
        ELSE IF merged.raised
          THEN failed(old_final)
        ELSE IF fault.kind = "upload"
          THEN failed(old_final)
        ELSE IF fault.kind = "mongo"
          THEN failed(merged.merged_text)
        ELSE [response |-> [status |-> "completed", error_message |-> "",
                            missing |-> {},
                            transcript_s3_key |-> FINAL_KEY,
                            total_words |-> merged.total_words],
              final |-> merged.merged_text,
              status |-> "completed"]

(***************************************************************************)
(* The episode document                                                    *)
(***************************************************************************)
NoMessage == [kind |-> "", indices |-> <<>>]

NewEpisode ==
    [transcript_status |-> "pending", error_message |-> NoMessage,
     transcript_s3_key |-> "", total_words |-> 0, status |-> ""]

(***************************************************************************)
(* SpecMerge: one invocation of the merge handler on an arbitrary request  *)
(***************************************************************************)
NoResponse == [status |-> "none"]

\* The entry the orchestrator sends for a transcribed chunk; the whisper
\* handler derives the transcript key from the chunk index.
TranscriptEntry(i) ==
    [chunk_index |-> i, transcript_s3_key |-> i,
     start_time_seconds |-> i * CHUNK_DURATION_SECONDS]

SeqsUpTo(S, n) == UNION {[1..m -> S] : m \in 0..n}

MergeEvents ==
    { [episode_id |-> id, total_chunks |-> Len(ts) + extra,
       transcripts |-> ts, s3_bucket |-> b] :
        id \in {"", "ep1"}, b \in {"", "bucket"}, extra \in {0, 1},
        ts \in SeqsUpTo({TranscriptEntry(i) : i \in 0..MaxIndex}, MaxTranscripts) }

Faults(keys) ==
    {NoFault, [kind |-> "upload", key |-> NoKey], [kind |-> "mongo", key |-> NoKey]}
        \cup {[kind |-> "download", key |-> k] : k \in keys}

MergeTexts(i) == { <<SP>>, <<SP, Word(i), SP, Word(i), NL>> }

IdleMerge ==
    /\ m_pc = "idle"
    /\ m_event = [episode_id |-> "", total_chunks |-> 0, transcripts |-> <<>>,
                  s3_bucket |-> ""]
    /\ m_fault = NoFault
    /\ m_response = NoResponse

IdlePipe ==
    /\ pc = "idle"
    /\ max_concurrent = 1
    /\ chunk_result = [kind |-> "none", chunks |-> <<>>, total_chunks |-> 0]
    /\ task = <<>>
    /\ semaphore = 0
    /\ gathered = <<>>
    /\ issued = <<>>
    /\ transcription_results = <<>>
    /\ merge_request = [sent |-> FALSE]
    /\ calls = [chunking |-> 0, whisper |-> 0, merge |-> 0]
    /\ ret = [status |-> "none"]

\* No job has been created and no service instance exists.
NoJob == [status |-> "none"]
NotRunning == [present |-> FALSE, flag |-> FALSE]

IdleJob ==
    /\ jobs_collection = NoJob
    /\ job = NoJob
    /\ j_pc = "idle"
    /\ idx = 0
    /\ running_jobs = <<>>
    /\ cancels = <<>>
    /\ started = <<>>

IdleApi ==
    /\ audio_url = FALSE
    /\ runs = <<>>
    /\ executions = <<>>
    /\ responses = <<>>

\* max_episodes = None
NoLimit == 0
NotCalled == [status |-> "none"]

IdleFn ==
    /\ rss_feed = <<>>
    /\ max_episodes = NoLimit
    /\ audio = 0
    /\ chunks_metadata = NotCalled

IdleWhisper ==
    /\ w_pc = "idle"
    /\ w_event = <<>>
    /\ w_environ = <<>>
    /\ w_fault = "none"
    /\ w_calls = <<>>
    /\ w_response = NoResponse

InitMerge ==
    /\ m_pc = "request"
    /\ m_event \in MergeEvents
    /\ m_fault \in Faults(0..MaxIndex)
    /\ m_response = NoResponse
    /\ s3 \in [0..MaxIndex -> UNION {MergeTexts(i) : i \in 0..MaxIndex}]
    /\ \A i \in 0..MaxIndex : s3[i] \in MergeTexts(i)
    /\ final = NoObject
    /\ episode = NewEpisode
    /\ IdleRetry
    /\ IdlePipe
    /\ IdleJob
    /\ IdleApi
    /\ IdleFn
    /\ IdleWhisper

\* The merge service handles m_event.
MergeInvoke ==
    /\ m_pc = "request"
    /\ LET r == merge_lambda_handler(m_event, s3, final, episode.status, m_fault)
       IN  /\ m_response' = r.response
           /\ final' = r.final
           /\ episode' = [episode EXCEPT !.status = r.status]
    /\ m_pc' = "responded"
    /\ UNCHANGED <<m_event, m_fault, s3, retryVars, pipeVars, jobVars, apiVars, fnVars, whVars>>

NextMerge == MergeInvoke

SpecMerge == InitMerge /\ [][NextMerge]_vars

InitRetry ==
    /\ EnterRetry
    /\ IdleMerge
    /\ IdlePipe
    /\ IdleJob
    /\ IdleApi
    /\ IdleFn
    /\ IdleWhisper
    /\ s3 = <<>>
    /\ final = NoObject
    /\ episode = NewEpisode

SpecRetry == InitRetry /\ [][NextRetry]_vars

(***************************************************************************)
(* Spec: one run of OrchestrationService.transcribe_episode                *)
(***************************************************************************)
EPISODE_ID == "ep1"
S3_AUDIO_BUCKET == "bucket"

NoResult ==
    [kind |-> "none", status |-> "", chunk_index |-> NoKey,
     transcript_s3_key |-> NoKey, start_time_seconds |-> 0, error_message |-> ""]

\* What the whisper service answers for a chunk, or the exception the POST
\* raised (kind = "exception").
WhisperOutcome(kind, status, chunk) ==
    [kind |-> kind, status |-> status, chunk_index |-> chunk.chunk_index,
     transcript_s3_key |-> IF status = "success" THEN chunk.chunk_index ELSE NoKey,
     start_time_seconds |-> chunk.start_time_seconds, error_message |-> ""]

\* str() of what the POST of _call_whisper_lambda can raise: the client's
\* timeout, or raise_for_status on a 429, 503 or 500 answer.
PostErrors == {"timeout", "429", "503", "500"}

\* The error_message of a whisper answer with status "error".
WhisperErrors == {"whisper error"}

Message(kind) == [kind |-> kind, indices |-> <<>>]

InitPipe ==
    /\ pc = "start"
    /\ max_concurrent \in 1..MaxConcurrent
    /\ chunk_result = [kind |-> "none", chunks |-> <<>>, total_chunks |-> 0]
    /\ task = <<>>
    /\ semaphore = 0
    /\ gathered = <<>>
    /\ issued = <<>>
    /\ transcription_results = <<>>
    /\ merge_request = [sent |-> FALSE]
    /\ calls = [chunking |-> 0, whisper |-> 0, merge |-> 0]
    /\ ret = [status |-> "none"]

Init ==
    /\ InitPipe
    /\ s3 = <<>>
    /\ final = NoObject
    /\ episode = NewEpisode
    /\ IdleRetry
    /\ IdleMerge
    /\ IdleJob
    /\ IdleApi
    /\ IdleFn
    /\ IdleWhisper

\* The except branch of transcribe_episode, given the episode document and
\* the object at the final key as the failing stage left them.
Failed(doc, message) ==
    /\ episode' = [doc EXCEPT !.transcript_status = "failed",
                              !.error_message = message]
    /\ ret' = [status |-> "failed", error_message |-> message]
    /\ pc' = "done"

\* transcribe_episode up to the POST to the chunking service.
Start ==
    /\ pc = "start"
    /\ episode' = [episode EXCEPT !.transcript_status = "processing"]
    /\ calls' = [calls EXCEPT !.chunking = @ + 1]
    /\ pc' = "chunking"
    /\ UNCHANGED <<max_concurrent, chunk_result, task, semaphore, gathered, issued,
                   transcription_results, merge_request, ret, s3, final>>
    /\ UNCHANGED <<retryVars, mergeVars,
                   jobVars, apiVars, fnVars, whVars>>

\* Mutant: an empty chunk list is not checked.
ChunkingReturnsUnchecked(n) ==
    /\ pc = "chunking"
    /\ chunk_result' = [kind |-> "ok", chunks |-> create_chunks(n), total_chunks |-> n]
    /\ task' = [j \in 1..n |-> "waiting"]
    /\ semaphore' = max_concurrent
    /\ gathered' = [j \in 1..n |-> NoResult]
    /\ issued' = [j \in 1..n |-> 0]
    /\ pc' = "transcribing"
    /\ UNCHANGED <<episode, ret>>
    /\ UNCHANGED <<max_concurrent, transcription_results, merge_request, calls,
                   s3, final, retryVars, mergeVars,
                   jobVars, apiVars, fnVars, whVars>>

\* The chunking service answers with n chunks; the tasks of
\* _transcribe_chunks_parallel are created.
ChunkingReturns(n) ==
    /\ pc = "chunking"
    /\ chunk_result' = [kind |-> "ok", chunks |-> create_chunks(n), total_chunks |-> n]
    /\ IF n = 0
         THEN /\ Failed(episode, Message("No chunks returned from chunking service"))
              /\ UNCHANGED <<task, semaphore, gathered, issued>>
         ELSE /\ task' = [j \in 1..n |-> "waiting"]
              /\ semaphore' = max_concurrent
              /\ gathered' = [j \in 1..n |-> NoResult]
              /\ issued' = [j \in 1..n |-> 0]
              /\ pc' = "transcribing"
              /\ UNCHANGED <<episode, ret>>
    /\ UNCHANGED <<max_concurrent, transcription_results, merge_request, calls,
                   s3, final, retryVars, mergeVars,
                   jobVars, apiVars, fnVars, whVars>>

\* The chunking service answers {"error": ...}.
ChunkingReportsError ==
    /\ pc = "chunking"
    /\ chunk_result' = [kind |-> "error", chunks |-> <<>>, total_chunks |-> 0]
    /\ Failed(episode, Message("Chunking failed"))
    /\ UNCHANGED <<max_concurrent, task, semaphore, gathered, issued,
                   transcription_results, merge_request, calls,
                   s3, final, retryVars, mergeVars,
                   jobVars, apiVars, fnVars, whVars>>

\* Mutant: a POST to the chunking service that raises is made again.
ChunkingRaisesRetried ==
    /\ pc = "chunking"
    /\ calls.chunking <= MAX_RETRIES
    /\ calls' = [calls EXCEPT !.chunking = @ + 1]
    /\ UNCHANGED <<pc, episode, ret, chunk_result>>
    /\ UNCHANGED <<max_concurrent, task, semaphore, gathered, issued,
                   transcription_results, merge_request,
                   s3, final, retryVars, mergeVars,
                   jobVars, apiVars, fnVars, whVars>>

\* The POST to the chunking service raises (HTTP status, timeout).
ChunkingRaises ==
    /\ pc = "chunking"
    /\ chunk_result' = [kind |-> "raised", chunks |-> <<>>, total_chunks |-> 0]
    /\ Failed(episode, Message("chunking request raised"))
    /\ UNCHANGED <<max_concurrent, task, semaphore, gathered, issued,
                   transcription_results, merge_request, calls,
                   s3, final, retryVars, mergeVars,
                   jobVars, apiVars, fnVars, whVars>>

\* Mutant: the task posts its request without passing the semaphore.
TaskAcquireUngated(j) ==
    /\ pc = "transcribing"
    /\ j \in DOMAIN task
    /\ task[j] = "waiting"
    /\ task' = [task EXCEPT ![j] = "inflight"]
    /\ semaphore' = semaphore - 1
    /\ issued' = [issued EXCEPT ![j] = @ + 1]
    /\ calls' = [calls EXCEPT !.whisper = @ + 1]
    /\ UNCHANGED <<pc, max_concurrent, chunk_result, gathered, transcription_results,
                   merge_request, ret, storeVars, retryVars, mergeVars,
                   jobVars, apiVars, fnVars, whVars>>

\* Task j enters `async with semaphore` and posts its chunk to the whisper
\* service.  The semaphore admits its waiters first come, first served.
TaskAcquire(j) ==
    /\ pc = "transcribing"
    /\ j \in DOMAIN task
    /\ task[j] = "waiting"
    /\ \A i \in 1..(j - 1) : task[i] # "waiting"
    /\ semaphore > 0
    /\ task' = [task EXCEPT ![j] = "inflight"]
    /\ semaphore' = semaphore - 1
    /\ issued' = [issued EXCEPT ![j] = @ + 1]
    /\ calls' = [calls EXCEPT !.whisper = @ + 1]
    /\ UNCHANGED <<pc, max_concurrent, chunk_result, gathered, transcription_results,
                   merge_request, ret, storeVars, retryVars, mergeVars,
                   jobVars, apiVars, fnVars, whVars>>

\* The whisper service transcribed chunk j, stored its transcript and
\* answered status "success"; the task leaves the semaphore.
TaskSucceeds(j, text) ==
    /\ pc = "transcribing"
    /\ j \in DOMAIN task
    /\ task[j] = "inflight"
    /\ LET chunk == chunk_result.chunks[j]
       IN  /\ text \in ChunkTexts(chunk.chunk_index)
           /\ s3' = [k \in DOMAIN s3 \cup {chunk.chunk_index} |->
                        IF k = chunk.chunk_index THEN text ELSE s3[k]]
           /\ gathered' = [gathered EXCEPT
                             ![j] = WhisperOutcome("response", "success", chunk)]
    /\ task' = [task EXCEPT ![j] = "done"]
    /\ semaphore' = semaphore + 1
    /\ UNCHANGED <<pc, max_concurrent, chunk_result, issued, transcription_results,
                   merge_request, calls, ret, final, episode, retryVars, mergeVars,
                   jobVars, apiVars, fnVars, whVars>>

\* The whisper service answered status "error" for chunk j (kind =
\* "response"), or the POST raised (kind = "exception"); either way the task
\* returns or raises at once.
TaskFails(j, kind, error) ==
    /\ pc = "transcribing"
    /\ j \in DOMAIN task
    /\ task[j] = "inflight"
    /\ error \in (IF kind = "exception" THEN PostErrors ELSE WhisperErrors)
    /\ gathered' = [gathered EXCEPT
                      ![j] = [WhisperOutcome(kind, "error", chunk_result.chunks[j])
                                EXCEPT !.error_message = error]]
    /\ task' = [task EXCEPT ![j] = "done"]
    /\ semaphore' = semaphore + 1
    /\ UNCHANGED <<pc, max_concurrent, chunk_result, issued, transcription_results,
                   merge_request, calls, ret, storeVars, retryVars, mergeVars,
                   jobVars, apiVars, fnVars, whVars>>

\* Mutant: an exception is reported under its position in the result list.
ProcessedResultsByPosition(results, chunks) ==
    [j \in DOMAIN results |->
        IF results[j].kind = "exception"
          THEN [kind |-> "response", status |-> "error",
                chunk_index |-> j,
                transcript_s3_key |-> NoKey, start_time_seconds |-> 0,
                error_message |-> results[j].error_message]
          ELSE results[j]]

\* processed_results: exceptions become error results carrying the index of
\* the chunk at the same position.
ProcessedResults(results, chunks) ==
    [j \in DOMAIN results |->
        IF results[j].kind = "exception"
          THEN [kind |-> "response", status |-> "error",
                chunk_index |-> chunks[j].chunk_index,
                transcript_s3_key |-> NoKey, start_time_seconds |-> 0,
                error_message |-> results[j].error_message]
          ELSE results[j]]

IsError(r) == r.status = "error"
IsMergeable(r) == r.status = "success" /\ r.transcript_s3_key # NoKey

\* The payload _call_merge_lambda builds.
MergePayload(total_chunks, results) ==
    LET ok == SelectSeq(results, IsMergeable)
    IN  [episode_id |-> EPISODE_ID,
         total_chunks |-> total_chunks,
         transcripts |-> [j \in DOMAIN ok |->
                            [chunk_index |-> ok[j].chunk_index,
                             transcript_s3_key |-> ok[j].transcript_s3_key,
                             start_time_seconds |-> ok[j].start_time_seconds]],
         s3_bucket |-> S3_AUDIO_BUCKET]

\* What the stage does once asyncio.gather has returned.
AfterGather ==
    LET results == ProcessedResults(gathered, chunk_result.chunks)
        failed_chunks == SelectSeq(results, IsError)
    IN  /\ transcription_results' = results
        /\ IF failed_chunks # <<>>
             THEN /\ Failed(episode,
                            [kind |-> "Transcription failed for chunks",
                             indices |-> Indices(failed_chunks)])
                  /\ UNCHANGED <<merge_request, calls>>
             ELSE /\ merge_request' =
                        [sent |-> TRUE,
                         payload |-> MergePayload(chunk_result.total_chunks, results)]
                  /\ calls' = [calls EXCEPT !.merge = @ + 1]
                  /\ pc' = "merging"
                  /\ UNCHANGED <<episode, ret>>
        /\ UNCHANGED <<max_concurrent, chunk_result, task, semaphore, gathered, issued,
                       s3, final, retryVars, mergeVars,
                   jobVars, apiVars, fnVars, whVars>>

\* Mutant: the failure check after the stage is left out.
GatherUnchecked ==
    /\ pc = "transcribing"
    /\ \A j \in DOMAIN task : task[j] = "done"
    /\ LET results == ProcessedResults(gathered, chunk_result.chunks)
       IN  /\ transcription_results' = results
           /\ merge_request' =
                [sent |-> TRUE,
                 payload |-> MergePayload(chunk_result.total_chunks, results)]
    /\ calls' = [calls EXCEPT !.merge = @ + 1]
    /\ pc' = "merging"
    /\ UNCHANGED <<episode, ret>>
    /\ UNCHANGED <<max_concurrent, chunk_result, task, semaphore, gathered, issued,
                   s3, final, retryVars, mergeVars,
                   jobVars, apiVars, fnVars, whVars>>

\* Mutant: gather without return_exceptions, the first exception ends the wait.
GatherFailFast ==
    /\ pc = "transcribing"
    /\ \/ \A j \in DOMAIN task : task[j] = "done"
       \/ \E j \in DOMAIN task : task[j] = "done" /\ gathered[j].kind = "exception"
    /\ AfterGather

\* asyncio.gather(*tasks, return_exceptions=True) returns once every task
\* has finished; the results are checked and the merge request is posted.
Gather ==
    /\ pc = "transcribing"
    /\ \A j \in DOMAIN task : task[j] = "done"
    /\ AfterGather

\* The answer of the merge service is used whatever its status.
MergeReturnsUnchecked(fault) ==
    /\ pc = "merging"
    /\ fault \in Faults(DOMAIN s3)
    /\ LET r == merge_lambda_handler(merge_request.payload, s3, final,
                                     episode.status, fault)
           doc == [episode EXCEPT !.status = r.status]
       IN  /\ final' = r.final
           /\ episode' = [doc EXCEPT
                  !.transcript_status = "completed",
                  !.transcript_s3_key = r.response.transcript_s3_key,
                  !.total_words = r.response.total_words]
           /\ ret' = [status |-> "completed",
                      transcript_s3_key |-> r.response.transcript_s3_key,
                      total_words |-> r.response.total_words,
                      total_chunks |-> chunk_result.total_chunks]
           /\ pc' = "done"
    /\ UNCHANGED <<max_concurrent, chunk_result, task, semaphore, gathered, issued,
                   transcription_results, merge_request, calls, s3,
                   retryVars, mergeVars,
                   jobVars, apiVars, fnVars, whVars>>

\* The merge service handles the request and its answer arrives.
MergeReturns(fault) ==
    /\ pc = "merging"
    /\ fault \in Faults(DOMAIN s3)
    /\ LET r == merge_lambda_handler(merge_request.payload, s3, final,
                                     episode.status, fault)
           doc == [episode EXCEPT !.status = r.status]
       IN  /\ final' = r.final
           /\ IF r.response.status = "error"
                THEN Failed(doc, Message("Merge failed"))
                ELSE /\ episode' = [doc EXCEPT
                            !.transcript_status = "completed",
                            !.transcript_s3_key = r.response.transcript_s3_key,
                            !.total_words = r.response.total_words]
                     /\ ret' = [status |-> "completed",
                                transcript_s3_key |-> r.response.transcript_s3_key,
                                total_words |-> r.response.total_words,
                                total_chunks |-> chunk_result.total_chunks]
                     /\ pc' = "done"
    /\ UNCHANGED <<max_concurrent, chunk_result, task, semaphore, gathered, issued,
                   transcription_results, merge_request, calls, s3,
                   retryVars, mergeVars,
                   jobVars, apiVars, fnVars, whVars>>

\* The exception of the POST to the merge service leaves transcribe_episode.
MergeRaisesPropagated(fault, ran) ==
    /\ pc = "merging"
    /\ fault \in Faults(DOMAIN s3)
    /\ LET r == merge_lambda_handler(merge_request.payload, s3, final,
                                     episode.status, fault)
       IN  /\ final' = IF ran THEN r.final ELSE final
           /\ episode' = IF ran THEN [episode EXCEPT !.status = r.status] ELSE episode
    /\ pc' = "raised"
    /\ UNCHANGED ret
    /\ UNCHANGED <<max_concurrent, chunk_result, task, semaphore, gathered, issued,
                   transcription_results, merge_request, calls, s3,
                   retryVars, mergeVars,
                   jobVars, apiVars, fnVars, whVars>>

\* The POST to the merge service raises (HTTP status, timeout); the service
\* may or may not have handled the request (ran).
MergeRaises(fault, ran) ==
    /\ pc = "merging"
    /\ fault \in Faults(DOMAIN s3)
    /\ LET r == merge_lambda_handler(merge_request.payload, s3, final,
                                     episode.status, fault)
           doc == IF ran THEN [episode EXCEPT !.status = r.status] ELSE episode
       IN  /\ final' = IF ran THEN r.final ELSE final
           /\ Failed(doc, Message("merge request raised"))
    /\ UNCHANGED <<max_concurrent, chunk_result, task, semaphore, gathered, issued,
                   transcription_results, merge_request, calls, s3,
                   retryVars, mergeVars,
                   jobVars, apiVars, fnVars, whVars>>

Next ==
    \/ Start
    \/ \E n \in 0..MaxChunks : ChunkingReturns(n)
    \/ ChunkingReportsError
    \/ ChunkingRaises
    \/ \E j \in 1..MaxChunks : TaskAcquire(j)
    \/ \E j \in 1..MaxChunks :
         \E text \in UNION {ChunkTexts(i) : i \in 0..(MaxChunks - 1)} :
            TaskSucceeds(j, text)
    \/ \E j \in 1..MaxChunks : \E kind \in {"response", "exception"} :
         \E error \in PostErrors \cup WhisperErrors : TaskFails(j, kind, error)
    \/ Gather
    \/ \E fault \in Faults(0..(MaxChunks - 1)) : MergeReturns(fault)
    \/ \E fault \in Faults(0..(MaxChunks - 1)) : \E ran \in BOOLEAN : MergeRaises(fault, ran)

Spec == Init /\ [][Next]_vars

\* Every await of transcribe_episode comes back: the POSTs return or raise
\* within the httpx timeouts (CHUNKING_TIMEOUT, WHISPER_TIMEOUT,
\* MERGE_TIMEOUT), and the event loop runs every task of the gather.
SpecFair == Spec /\ WF_vars(Next)

\* Answers of a whisper endpoint that are neither an error nor mergeable:
\* a body without status, and status "success" without transcript_s3_key.
OtherAnswers == {"", "success"}

\* The whisper endpoint answers chunk j with such a body.
TaskAnswersOther(j, status) ==
    /\ pc = "transcribing"
    /\ j \in DOMAIN task
    /\ task[j] = "inflight"
    /\ status \in OtherAnswers
    /\ gathered' = [gathered EXCEPT
                      ![j] = [WhisperOutcome("response", status, chunk_result.chunks[j])
                                EXCEPT !.transcript_s3_key = NoKey]]
    /\ task' = [task EXCEPT ![j] = "done"]
    /\ semaphore' = semaphore + 1
    /\ UNCHANGED <<pc, max_concurrent, chunk_result, issued, transcription_results,
                   merge_request, calls, ret, storeVars, retryVars, mergeVars,
                   jobVars, apiVars, fnVars, whVars>>

\* transcribe_episode against a whisper endpoint that may answer anything.
NextOpen ==
    \/ Next
    \/ \E j \in 1..MaxChunks : \E status \in OtherAnswers : TaskAnswersOther(j, status)

SpecOpen == Init /\ [][NextOpen]_vars

(***************************************************************************)
(* SpecJob: one bulk job of BulkTranscribeService                          *)
(*                                                                         *)
(* The job document is taken as create_job stored it.  The service         *)
(* instance built by the request that created the job is instance 1; its   *)
(* process_job runs as that request's background task.  Every request to   *)
(* the cancel route builds an instance of its own.                         *)
(***************************************************************************)
NoTitle == 0
NoErrorMessage == "None"
RunnerService == 1

\* An entry of the job's "episodes" list as create_job stores it.
JobEpisode(title, url) ==
    [title |-> title, audio_url |-> url, status |-> "pending",
     error_message |-> NoErrorMessage]

\* The job document create_job inserts for a feed of n episodes; urls[i]
\* tells whether episode i carries an audio_url.
CreatedJob(urls) ==
    [status |-> "pending",
     total_episodes |-> Len(urls),
     processed_episodes |-> 0,
     successful_episodes |-> 0,
     failed_episodes |-> 0,
     completed_at |-> FALSE,
     current_episode |-> NoTitle,
     episodes |-> [i \in DOMAIN urls |-> JobEpisode(i, urls[i])]]

InitJob ==
    /\ \E n \in 1..MaxEpisodes : \E urls \in [1..n -> BOOLEAN] :
          jobs_collection = CreatedJob(urls)
    /\ job = NoJob
    /\ j_pc = "created"
    /\ idx = 0
    /\ running_jobs = <<NotRunning>>
    /\ cancels = <<>>
    /\ started = <<>>
    /\ IdleRetry
    /\ IdleMerge
    /\ IdlePipe
    /\ IdleApi
    /\ IdleFn
    /\ IdleWhisper
    /\ s3 = <<>>
    /\ final = NoObject
    /\ episode = NewEpisode

\* update_episode_in_job: $set of episodes.<i>.<field>.  The loop counts
\* from 0, the sequence from 1.
SetEpisodeStatus(doc, i, status, message) ==
    [doc EXCEPT !.episodes[i + 1].status = status,
                !.episodes[i + 1].error_message = message]

\* The `finally` of process_job without the removal of the entry.
CleanupKept(svc) == running_jobs

\* The `finally` of process_job.
Cleanup(svc) == [running_jobs EXCEPT ![svc] = NotRunning]

\* process_job reads the job document without marking the job running.
ProcessStartUnmarked ==
    /\ j_pc = "created"
    /\ running_jobs' = [running_jobs EXCEPT
                          ![RunnerService] = [present |-> TRUE, flag |-> TRUE]]
    /\ job' = jobs_collection
    /\ idx' = 0
    /\ j_pc' = "loop"
    /\ UNCHANGED <<jobs_collection, cancels, started>>
    /\ UNCHANGED <<retryVars, mergeVars, storeVars, pipeVars, apiVars, fnVars, whVars>>

\* process_job marks the job running and reads the job document, once.
ProcessStart ==
    /\ j_pc = "created"
    /\ running_jobs' = [running_jobs EXCEPT
                          ![RunnerService] = [present |-> TRUE, flag |-> TRUE]]
    /\ jobs_collection' = [jobs_collection EXCEPT !.status = "running"]
    /\ job' = jobs_collection'
    /\ idx' = 0
    /\ j_pc' = "loop"
    /\ UNCHANGED <<cancels, started>>
    /\ UNCHANGED <<retryVars, mergeVars, storeVars, pipeVars, apiVars, fnVars, whVars>>

\* The except branch of the loop body without the write of
\* processed_episodes.
UnitFailedUncounted(doc, i, message) ==
    [SetEpisodeStatus(doc, i, "failed", message) EXCEPT
        !.failed_episodes = job.failed_episodes + 1]

\* The except branch of the loop body: the unit is recorded as failed with
\* the exception's text and the counters are written from the local job.
UnitFailed(doc, i, message) ==
    [SetEpisodeStatus(doc, i, "failed", message) EXCEPT
        !.processed_episodes = i + 1,
        !.failed_episodes = job.failed_episodes + 1]

\* The success branch of the loop body without the write of the entry.
UnitCompletedCountersOnly(doc, i) ==
    [doc EXCEPT
        !.processed_episodes = i + 1,
        !.successful_episodes = job.successful_episodes + 1]

\* The success branch of the loop body.
UnitCompleted(doc, i) ==
    [SetEpisodeStatus(doc, i, "completed", NoErrorMessage) EXCEPT
        !.processed_episodes = i + 1,
        !.successful_episodes = job.successful_episodes + 1]

\* The body of the loop for unit i up to its first wait that a cancel
\* request can tell apart: the cancellation flag is not looked at.
IterationUnchecked(i) ==
    LET episode_data == job.episodes[i + 1]
        doc == SetEpisodeStatus(
                  [jobs_collection EXCEPT !.current_episode = episode_data.title],
                  i, "processing", NoErrorMessage)
    IN  /\ idx' = i
        /\ started' = Append(started, i)
        /\ IF episode_data.audio_url
             THEN /\ jobs_collection' = doc
                  /\ j_pc' = "unit"
             ELSE /\ jobs_collection' =
                        UnitFailed(doc, i, "No audio URL found for episode")
                  /\ j_pc' = "sleep"
        /\ UNCHANGED <<job, running_jobs, cancels>>

\* The body of the loop for unit i: the cancellation check, then the unit
\* is marked processing and its audio is handed to the whisper service.
Iteration(i) ==
    IF ~running_jobs[RunnerService].flag
      THEN /\ jobs_collection' = [jobs_collection EXCEPT !.status = "cancelled"]
           /\ running_jobs' = Cleanup(RunnerService)
           /\ j_pc' = "ended"
           /\ idx' = i
           /\ UNCHANGED <<job, cancels, started>>
      ELSE IterationUnchecked(i)

\* The first pass of the loop.
LoopEnter ==
    /\ j_pc = "loop"
    /\ Iteration(0)
    /\ UNCHANGED <<retryVars, mergeVars, storeVars, pipeVars, apiVars, fnVars, whVars>>

\* Mutant: a failing unit ends the job.
UnitReturnsAborting(outcome) ==
    /\ j_pc = "unit"
    /\ IF outcome = "transcript"
         THEN /\ jobs_collection' = UnitCompleted(jobs_collection, idx)
              /\ j_pc' = "sleep"
              /\ UNCHANGED running_jobs
         ELSE /\ jobs_collection' = [jobs_collection EXCEPT
                                       !.status = "failed",
                                       !.current_episode = NoTitle]
              /\ running_jobs' = Cleanup(RunnerService)
              /\ j_pc' = "ended"
    /\ UNCHANGED <<job, idx, cancels, started>>
    /\ UNCHANGED <<retryVars, mergeVars, storeVars, pipeVars, apiVars, fnVars, whVars>>

\* whisper_service.transcribe_audio_url returns a transcript, returns an
\* empty result (None or ""), or raises.
UnitReturns(outcome) ==
    /\ j_pc = "unit"
    /\ jobs_collection' =
          CASE outcome = "transcript" -> UnitCompleted(jobs_collection, idx)
            [] outcome = "empty" ->
                 UnitFailed(jobs_collection, idx, "Transcription returned empty result")
            [] outcome = "raises" ->
                 UnitFailed(jobs_collection, idx, "whisper raised")
    /\ j_pc' = "sleep"
    /\ UNCHANGED <<job, idx, running_jobs, cancels, started>>
    /\ UNCHANGED <<retryVars, mergeVars, storeVars, pipeVars, apiVars, fnVars, whVars>>

\* After the last unit: the job is marked completed and the `finally` runs.
Finish ==
    /\ jobs_collection' = [jobs_collection EXCEPT
                             !.status = "completed",
                             !.current_episode = NoTitle,
                             !.completed_at = TRUE]
    /\ running_jobs' = Cleanup(RunnerService)
    /\ j_pc' = "ended"
    /\ UNCHANGED <<job, idx, cancels, started>>

\* asyncio.sleep(2) after unit idx returns: the next pass of the loop, or
\* the end of the job.
SleepReturns ==
    /\ j_pc = "sleep"
    /\ IF idx + 1 < Len(job.episodes) THEN Iteration(idx + 1) ELSE Finish
    /\ UNCHANGED <<retryVars, mergeVars, storeVars, pipeVars, apiVars, fnVars, whVars>>

\* Whether process_job is between its first and its last statement.
Active == j_pc \in {"loop", "unit", "sleep"}

\* What a cancel_job call is recorded with: the instance it was made on,
\* its return value, and where process_job stood.
CancelRecord(svc, via, result) ==
    [svc |-> svc, via |-> via, result |-> result,
     active |-> Active, j_pc |-> j_pc, idx |-> idx]

\* Mutant: cancel_job sets the flag whether or not the job is registered.
cancel_job_unregistered(svc, via, jobs) ==
    /\ running_jobs' = [jobs EXCEPT ![svc] = [present |-> TRUE, flag |-> FALSE]]
    /\ cancels' = Append(cancels, CancelRecord(svc, via, TRUE))

\* cancel_job on instance svc, whose running_jobs are `jobs`.
cancel_job(svc, via, jobs) ==
    IF jobs[svc].present
      THEN /\ running_jobs' = [jobs EXCEPT ![svc].flag = FALSE]
           /\ cancels' = Append(cancels, CancelRecord(svc, via, TRUE))
      ELSE /\ running_jobs' = jobs
           /\ cancels' = Append(cancels, CancelRecord(svc, via, FALSE))

\* cancel_job is called on the instance that runs, or would run, the job.
CancelJob ==
    /\ j_pc # "idle"
    /\ Len(cancels) < MaxCancels
    /\ cancel_job(RunnerService, "service", running_jobs)
    /\ UNCHANGED <<jobs_collection, job, j_pc, idx, started>>
    /\ UNCHANGED <<retryVars, mergeVars, storeVars, pipeVars, apiVars, fnVars, whVars>>

\* POST /api/dev/bulk-transcribe/{job_id}/cancel: a new service instance is
\* built, the job is looked up, and cancel_job is called on the new instance.
cancel_bulk_transcribe_job ==
    /\ j_pc # "idle"
    /\ Len(cancels) < MaxCancels
    /\ LET service == Len(running_jobs) + 1
       IN  cancel_job(service, "route", Append(running_jobs, NotRunning))
    /\ UNCHANGED <<jobs_collection, job, j_pc, idx, started>>
    /\ UNCHANGED <<retryVars, mergeVars, storeVars, pipeVars, apiVars, fnVars, whVars>>

(***************************************************************************)
(* Database failures met by process_job.  A write or read of the job       *)
(* document may raise; inside the loop body the unit's except branch        *)
(* catches it, anywhere else, and inside that except branch, it reaches    *)
(* the outer except of process_job.                                        *)
(***************************************************************************)
DbError == "database error"

\* The outer except and the finally of process_job; recorded tells whether
\* its own update_job succeeds (otherwise the exception leaves process_job).
OuterExcept(doc, recorded) ==
    /\ jobs_collection' = IF recorded
                            THEN [doc EXCEPT !.status = "failed",
                                             !.current_episode = NoTitle]
                            ELSE doc
    /\ running_jobs' = Cleanup(RunnerService)
    /\ j_pc' = "raised"

\* The except branch of the loop body for unit i with the exception's text,
\* of which except_done of the two writes succeed: the entry, the counters.
InnerExcept(doc, i, message, except_done, recorded) ==
    CASE except_done = 0 -> OuterExcept(doc, recorded)
      [] except_done = 1 ->
           OuterExcept(SetEpisodeStatus(doc, i, "failed", message), recorded)
      [] OTHER -> /\ jobs_collection' = UnitFailed(doc, i, message)
                  /\ j_pc' = "sleep"
                  /\ UNCHANGED running_jobs

\* The first update_job of process_job, the one that writes "running",
\* raises.  (A get_job that raises after it leaves the documents that
\* LoopEnterRaises(0, 0, recorded) leaves.)
StartRaises(recorded) ==
    /\ j_pc = "created"
    /\ OuterExcept(jobs_collection, recorded)
    /\ UNCHANGED <<job, idx, cancels, started>>
    /\ UNCHANGED <<retryVars, mergeVars, storeVars, pipeVars, apiVars, fnVars, whVars>>

\* A pass of the loop for unit i in which a database call raises: the write
\* of status "cancelled", or, after `done` of the two writes that open the
\* unit, the next write (done < 2) or a write of the except branch entered
\* for a missing audio_url (done = 2).
IterationRaises(i, done, except_done, recorded) ==
    IF ~running_jobs[RunnerService].flag
      THEN /\ done = 0
           /\ except_done = 0
           /\ OuterExcept(jobs_collection, recorded)
           /\ idx' = i
           /\ UNCHANGED <<job, cancels, started>>
      ELSE LET episode_data == job.episodes[i + 1]
               doc1 == [jobs_collection EXCEPT !.current_episode = episode_data.title]
               doc2 == SetEpisodeStatus(doc1, i, "processing", NoErrorMessage)
               doc == CASE done = 0 -> jobs_collection
                        [] done = 1 -> doc1
                        [] OTHER -> doc2
               message == IF done = 2 THEN "No audio URL found for episode" ELSE DbError
           IN  /\ done = 2 => ~episode_data.audio_url /\ except_done < 2
               /\ InnerExcept(doc, i, message, except_done, recorded)
               /\ idx' = i
               /\ started' = Append(started, i)
               /\ UNCHANGED <<job, cancels>>

LoopEnterRaises(done, except_done, recorded) ==
    /\ j_pc = "loop"
    /\ IterationRaises(0, done, except_done, recorded)
    /\ UNCHANGED <<retryVars, mergeVars, storeVars, pipeVars, apiVars, fnVars, whVars>>

\* The whisper call has returned and a database call of the unit's branch
\* raises: after `done` writes of the success branch, or in the except
\* branch entered for an empty result or an exception of the call.
UnitRaises(outcome, done, except_done, recorded) ==
    /\ j_pc = "unit"
    /\ IF outcome = "transcript"
         THEN InnerExcept(IF done = 0 THEN jobs_collection
                          ELSE SetEpisodeStatus(jobs_collection, idx, "completed",
                                                NoErrorMessage),
                          idx, DbError, except_done, recorded)
         ELSE /\ done = 0
              /\ except_done < 2
              /\ InnerExcept(jobs_collection, idx,
                             IF outcome = "empty"
                               THEN "Transcription returned empty result"
                               ELSE "whisper raised",
                             except_done, recorded)
    /\ UNCHANGED <<job, idx, cancels, started>>
    /\ UNCHANGED <<retryVars, mergeVars, storeVars, pipeVars, apiVars, fnVars, whVars>>

\* asyncio.sleep(2) returns and a database call of the next pass, or of the
\* end of the job, raises.
SleepReturnsRaises(done, except_done, recorded) ==
    /\ j_pc = "sleep"
    /\ IF idx + 1 < Len(job.episodes)
         THEN IterationRaises(idx + 1, done, except_done, recorded)
         ELSE /\ done = 0
              /\ except_done = 0
              /\ OuterExcept(jobs_collection, recorded)
              /\ UNCHANGED <<job, idx, cancels, started>>
    /\ UNCHANGED <<retryVars, mergeVars, storeVars, pipeVars, apiVars, fnVars, whVars>>

NextJob ==
    \/ ProcessStart
    \/ LoopEnter
    \/ \E outcome \in {"transcript", "empty", "raises"} : UnitReturns(outcome)
    \/ SleepReturns
    \/ CancelJob
    \/ cancel_bulk_transcribe_job

SpecJob == InitJob /\ [][NextJob]_vars

\* process_job and cancel_job on the instance that runs the job, with
\* database calls that may raise.  (The cancel route acts on an instance of
\* its own and touches neither the job document nor this instance.)
NextJobFaults ==
    \/ ProcessStart
    \/ LoopEnter
    \/ \E outcome \in {"transcript", "empty", "raises"} : UnitReturns(outcome)
    \/ SleepReturns
    \/ CancelJob
    \/ \E recorded \in BOOLEAN : StartRaises(recorded)
    \/ \E done, except_done \in 0..2 : \E recorded \in BOOLEAN :
         LoopEnterRaises(done, except_done, recorded)
    \/ \E outcome \in {"transcript", "empty", "raises"} :
         \E done \in 0..1 : \E except_done \in 0..2 : \E recorded \in BOOLEAN :
            UnitRaises(outcome, done, except_done, recorded)
    \/ \E done, except_done \in 0..2 : \E recorded \in BOOLEAN :
         SleepReturnsRaises(done, except_done, recorded)

SpecJobFaults == InitJob /\ [][NextJobFaults]_vars

\* Every await of process_job comes back: the database calls return or
\* raise, the whisper call returns or raises within its aiohttp timeouts,
\* and asyncio.sleep(2) returns.
SpecJobFair ==
    /\ SpecJobFaults
    /\ WF_vars(ProcessStart)
    /\ WF_vars(LoopEnter)
    /\ WF_vars(\E outcome \in {"transcript", "empty", "raises"} : UnitReturns(outcome))
    /\ WF_vars(SleepReturns)

(***************************************************************************)
(* SpecApi: the transcription requests for one episode                     *)
(*                                                                         *)
(* start_transcription and retry_transcription schedule a run of           *)
(* transcribe_episode as a background task; trigger_episode_transcription  *)
(* starts a Step Functions execution.  A run is followed from its first    *)
(* write (processing) to its last (completed or failed); the stages in     *)
(* between are those of Spec.  The routes are taken with the database      *)
(* handle they name (db.episodes) in hand.                                 *)
(***************************************************************************)
TranscriptStatuses == {"pending", "processing", "completed", "failed"}

\* An episode document as the server can hold it in each status.
StoredEpisode(status) ==
    [NewEpisode EXCEPT
        !.transcript_status = status,
        !.transcript_s3_key = IF status = "completed" THEN FINAL_KEY ELSE "",
        !.total_words = IF status = "completed" THEN 1 ELSE 0,
        !.error_message = IF status = "failed"
                            THEN Message("Chunking failed") ELSE NoMessage]

InitApi ==
    /\ episode \in {StoredEpisode(status) : status \in TranscriptStatuses}
    /\ audio_url \in BOOLEAN
    /\ runs = <<>>
    /\ executions = <<>>
    /\ responses = <<>>
    /\ s3 = <<>>
    /\ final = NoObject
    /\ IdleRetry
    /\ IdleMerge
    /\ IdlePipe
    /\ IdleJob
    /\ IdleFn
    /\ IdleWhisper

\* A request handled: the route, the transcript_status it read, its answer.
Response(op, current_status, answer) ==
    [op |-> op, current_status |-> current_status, answer |-> answer]

Requests == Len(responses) + Len(SelectSeq(executions, LAMBDA e : e.state # "done"))

\* Mutant: start_transcription without the check for a completed episode.
start_transcription_unguarded(request_audio_url) ==
    LET current_status == episode.transcript_status
    IN  /\ Requests < MaxRequests
        /\ IF ~(request_audio_url \/ audio_url)
             THEN /\ responses' = Append(responses,
                                         Response("start", current_status, "400"))
                  /\ UNCHANGED runs
             ELSE IF current_status = "processing"
             THEN /\ responses' = Append(responses,
                        Response("start", current_status, "already_processing"))
                  /\ UNCHANGED runs
             ELSE /\ runs' = Append(runs, "scheduled")
                  /\ responses' = Append(responses,
                                         Response("start", current_status, "started"))
        /\ UNCHANGED <<episode, audio_url, executions, s3, final>>
        /\ UNCHANGED <<retryVars, mergeVars, pipeVars, jobVars, fnVars, whVars>>

\* POST /start; request_audio_url tells whether the request names an audio
\* URL of its own.
start_transcription(request_audio_url) ==
    LET current_status == episode.transcript_status
    IN  /\ Requests < MaxRequests
        /\ IF ~(request_audio_url \/ audio_url)
             THEN /\ responses' = Append(responses,
                                         Response("start", current_status, "400"))
                  /\ UNCHANGED runs
             ELSE IF current_status = "processing"
             THEN /\ responses' = Append(responses,
                        Response("start", current_status, "already_processing"))
                  /\ UNCHANGED runs
             ELSE IF current_status = "completed"
             THEN /\ responses' = Append(responses,
                        Response("start", current_status, "already_completed"))
                  /\ UNCHANGED runs
             ELSE /\ runs' = Append(runs, "scheduled")
                  /\ responses' = Append(responses,
                                         Response("start", current_status, "started"))
        /\ UNCHANGED <<episode, audio_url, executions, s3, final>>
        /\ UNCHANGED <<retryVars, mergeVars, pipeVars, jobVars, fnVars, whVars>>

\* POST /retry/{episode_id} without the check for a run in progress.
retry_transcription_unguarded ==
    LET current_status == episode.transcript_status
    IN  /\ Requests < MaxRequests
        /\ IF ~audio_url
             THEN /\ responses' = Append(responses,
                                         Response("retry", current_status, "400"))
                  /\ UNCHANGED <<episode, runs>>
             ELSE /\ episode' = [episode EXCEPT !.transcript_status = "pending",
                                                !.error_message = NoMessage]
                  /\ runs' = Append(runs, "scheduled")
                  /\ responses' = Append(responses,
                                         Response("retry", current_status, "started"))
        /\ UNCHANGED <<audio_url, executions, s3, final>>
        /\ UNCHANGED <<retryVars, mergeVars, pipeVars, jobVars, fnVars, whVars>>

\* POST /retry/{episode_id}
retry_transcription ==
    LET current_status == episode.transcript_status
    IN  /\ Requests < MaxRequests
        /\ IF current_status = "processing" \/ ~audio_url
             THEN /\ responses' = Append(responses,
                                         Response("retry", current_status, "400"))
                  /\ UNCHANGED <<episode, runs>>
             ELSE /\ episode' = [episode EXCEPT !.transcript_status = "pending",
                                                !.error_message = NoMessage]
                  /\ runs' = Append(runs, "scheduled")
                  /\ responses' = Append(responses,
                                         Response("retry", current_status, "started"))
        /\ UNCHANGED <<audio_url, executions, s3, final>>
        /\ UNCHANGED <<retryVars, mergeVars, pipeVars, jobVars, fnVars, whVars>>

\* The background task of a request starts: transcribe_episode marks the
\* episode processing.
RunStart(k) ==
    /\ k \in DOMAIN runs
    /\ runs[k] = "scheduled"
    /\ runs' = [runs EXCEPT ![k] = "running"]
    /\ episode' = [episode EXCEPT !.transcript_status = "processing"]
    /\ UNCHANGED <<audio_url, executions, responses, s3, final>>
    /\ UNCHANGED <<retryVars, mergeVars, pipeVars, jobVars, fnVars, whVars>>

\* A run of transcribe_episode ends with its try block.
RunCompletes(k) ==
    /\ k \in DOMAIN runs
    /\ runs[k] = "running"
    /\ runs' = [runs EXCEPT ![k] = "completed"]
    /\ episode' = [episode EXCEPT !.transcript_status = "completed",
                                  !.transcript_s3_key = FINAL_KEY,
                                  !.total_words = 1]
    /\ UNCHANGED <<audio_url, executions, responses, s3, final>>
    /\ UNCHANGED <<retryVars, mergeVars, pipeVars, jobVars, fnVars, whVars>>

\* A run of transcribe_episode ends in its except branch.
RunFails(k) ==
    /\ k \in DOMAIN runs
    /\ runs[k] = "running"
    /\ runs' = [runs EXCEPT ![k] = "failed"]
    /\ episode' = [episode EXCEPT !.transcript_status = "failed",
                                  !.error_message = Message("Chunking failed")]
    /\ UNCHANGED <<audio_url, executions, responses, s3, final>>
    /\ UNCHANGED <<retryVars, mergeVars, pipeVars, jobVars, fnVars, whVars>>

\* POST /episodes/{episode_id}/transcribe up to its read of the episode and
\* the checks made on it.
trigger_episode_transcription ==
    LET current_status == episode.transcript_status
    IN  /\ Requests < MaxRequests
        /\ IF ~audio_url
             THEN /\ responses' = Append(responses,
                                         Response("trigger", current_status, "400"))
                  /\ UNCHANGED executions
             ELSE IF current_status = "processing"
             THEN /\ responses' = Append(responses,
                                         Response("trigger", current_status, "409"))
                  /\ UNCHANGED executions
             ELSE /\ executions' = Append(executions,
                        [current_status |-> current_status, state |-> "read"])
                  /\ UNCHANGED responses
        /\ UNCHANGED <<episode, audio_url, runs, s3, final>>
        /\ UNCHANGED <<retryVars, mergeVars, pipeVars, jobVars, fnVars, whVars>>

\* The trigger route writes transcript_status "processing".
TriggerUpdate(k) ==
    /\ k \in DOMAIN executions
    /\ executions[k].state = "read"
    /\ executions' = [executions EXCEPT ![k].state = "updated"]
    /\ episode' = [episode EXCEPT !.transcript_status = "processing"]
    /\ UNCHANGED <<audio_url, runs, responses, s3, final>>
    /\ UNCHANGED <<retryVars, mergeVars, pipeVars, jobVars, fnVars, whVars>>

\* step_functions_service.trigger_transcription returns the execution
\* (outcome "started"), raises ValueError (no state machine configured) or
\* raises another exception.
TriggerReturns(k, outcome) ==
    /\ k \in DOMAIN executions
    /\ executions[k].state = "updated"
    /\ executions' = [executions EXCEPT ![k].state = "done"]
    /\ LET current_status == executions[k].current_status
       IN  CASE outcome = "started" ->
                  /\ responses' = Append(responses,
                        Response("trigger", current_status, "processing"))
                  /\ UNCHANGED episode
             [] outcome = "ValueError" ->
                  /\ responses' = Append(responses,
                        Response("trigger", current_status, "503"))
                  /\ episode' = [episode EXCEPT !.transcript_status = current_status]
             [] outcome = "Exception" ->
                  /\ responses' = Append(responses,
                        Response("trigger", current_status, "500"))
                  /\ episode' = [episode EXCEPT !.transcript_status = "failed"]
    /\ UNCHANGED <<audio_url, runs, s3, final>>
    /\ UNCHANGED <<retryVars, mergeVars, pipeVars, jobVars, fnVars, whVars>>

NextApi ==
    \/ \E request_audio_url \in BOOLEAN : start_transcription(request_audio_url)
    \/ retry_transcription
    \/ trigger_episode_transcription
    \/ \E k \in 1..MaxRequests : RunStart(k)
    \/ \E k \in 1..MaxRequests : RunCompletes(k)
    \/ \E k \in 1..MaxRequests : RunFails(k)
    \/ \E k \in 1..MaxRequests : TriggerUpdate(k)
    \/ \E k \in 1..MaxRequests :
         \E outcome \in {"started", "ValueError", "Exception"} : TriggerReturns(k, outcome)

SpecApi == InitApi /\ [][NextApi]_vars

(***************************************************************************)
(* SpecChunk: create_chunks of the chunking service on audio of any length *)
(***************************************************************************)
CHUNK_DURATION_MS == 1200000

\* Ceiling division, as written: (total + D - 1) // D
num_chunks_of(total_duration_ms) ==
    (total_duration_ms + CHUNK_DURATION_MS - 1) \div CHUNK_DURATION_MS

\* Mutant: floor division.
ChunkMetadataFloor(total_duration_ms) ==
    [j \in 1..(total_duration_ms \div CHUNK_DURATION_MS) |->
        LET i == j - 1
            start_ms == i * CHUNK_DURATION_MS
            end_ms == IF start_ms + CHUNK_DURATION_MS < total_duration_ms
                        THEN start_ms + CHUNK_DURATION_MS ELSE total_duration_ms
        IN  [chunk_index |-> i, s3_key |-> i, start_ms |-> start_ms, end_ms |-> end_ms]]

\* The list create_chunks builds; the times are kept in milliseconds
\* (start_time_seconds = start_ms / 1000, end_time_seconds = end_ms / 1000).
ChunkMetadata(total_duration_ms) ==
    [j \in 1..num_chunks_of(total_duration_ms) |->
        LET i == j - 1
            start_ms == i * CHUNK_DURATION_MS
            end_ms == IF start_ms + CHUNK_DURATION_MS < total_duration_ms
                        THEN start_ms + CHUNK_DURATION_MS ELSE total_duration_ms
        IN  [chunk_index |-> i, s3_key |-> i, start_ms |-> start_ms, end_ms |-> end_ms]]

\* Durations tried: within MaxOffset milliseconds of every multiple of the
\* chunk duration up to MaxAudioChunks chunks.
Durations ==
    {d \in {k * CHUNK_DURATION_MS + o :
               k \in 0..MaxAudioChunks, o \in (0 - MaxOffset)..MaxOffset} : d >= 0}

InitChunk ==
    /\ audio \in Durations
    /\ chunks_metadata = NotCalled
    /\ rss_feed = <<>>
    /\ max_episodes = NoLimit
    /\ IdleRetry
    /\ IdleMerge
    /\ IdlePipe
    /\ IdleJob
    /\ IdleApi
    /\ IdleWhisper
    /\ s3 = <<>>
    /\ final = NoObject
    /\ episode = NewEpisode

\* create_chunks returns its list.
CreateChunksReturns ==
    /\ chunks_metadata = NotCalled
    /\ chunks_metadata' = [status |-> "returned", chunks |-> ChunkMetadata(audio)]
    /\ UNCHANGED <<rss_feed, max_episodes, audio>>
    /\ UNCHANGED <<retryVars, mergeVars, storeVars, pipeVars, jobVars, apiVars, whVars>>

\* The upload of chunk i fails: create_chunks raises.
CreateChunksRaises(i) ==
    /\ chunks_metadata = NotCalled
    /\ i \in 0..(num_chunks_of(audio) - 1)
    /\ chunks_metadata' = [status |-> "raised", chunk |-> i]
    /\ UNCHANGED <<rss_feed, max_episodes, audio>>
    /\ UNCHANGED <<retryVars, mergeVars, storeVars, pipeVars, jobVars, apiVars, whVars>>

NextChunk ==
    \/ CreateChunksReturns
    \/ \E i \in 0..MaxAudioChunks : CreateChunksRaises(i)

SpecChunk == InitChunk /\ [][NextChunk]_vars

(***************************************************************************)
(* SpecCreate: BulkTranscribeService.create_job on any parsed feed         *)
(***************************************************************************)
\* _parse_published_date found no date: published_date is None.
NoDate == -1

\* An episode as parse_rss_feed returns it; its title is its place in the feed.
FeedEpisode(title, date, url) ==
    [title |-> title, published_date |-> date, audio_url |-> url]

Feeds ==
    UNION {{[i \in 1..n |-> FeedEpisode(i, dates[i], urls[i])] :
               dates \in [1..n -> {NoDate} \cup 1..MaxDate], urls \in [1..n -> BOOLEAN]} :
           n \in 0..MaxFeed}

\* list.sort(key = published_date): stable, ascending.
RECURSIVE InsertByDate(_, _)
InsertByDate(sorted, e) ==
    IF sorted = <<>> THEN <<e>>
    ELSE IF e.published_date < sorted[Len(sorted)].published_date
           THEN Append(InsertByDate(SubSeq(sorted, 1, Len(sorted) - 1), e),
                       sorted[Len(sorted)])
           ELSE Append(sorted, e)

RECURSIVE SortByDateFrom(_, _)
SortByDateFrom(sorted, rest) ==
    IF rest = <<>> THEN sorted
    ELSE SortByDateFrom(InsertByDate(sorted, Head(rest)), Tail(rest))

SortByDate(episodes) == SortByDateFrom(<<>>, episodes)

\* Comparing None with a datetime, or with None, raises TypeError; a list of
\* one element is sorted without any comparison.
SortRaises(episodes) ==
    /\ Len(episodes) >= 2
    /\ \E i \in DOMAIN episodes : episodes[i].published_date = NoDate

\* episodes[:max_episodes] when max_episodes is given and positive.
Limited(episodes, limit) ==
    IF limit # NoLimit /\ limit > 0 /\ limit < Len(episodes)
      THEN SubSeq(episodes, 1, limit)
      ELSE episodes

\* The job document create_job builds from the episodes it kept.
JobDocument(episodes) ==
    [status |-> "pending",
     total_episodes |-> Len(episodes),
     processed_episodes |-> 0,
     successful_episodes |-> 0,
     failed_episodes |-> 0,
     completed_at |-> FALSE,
     current_episode |-> NoTitle,
     episodes |-> [i \in DOMAIN episodes |->
                     JobEpisode(episodes[i].title, episodes[i].audio_url)]]

InitCreate ==
    /\ rss_feed \in Feeds
    /\ max_episodes \in {NoLimit} \cup 1..(MaxFeed + 1)
    /\ audio = 0
    /\ chunks_metadata = NotCalled
    /\ jobs_collection = NoJob
    /\ job = NoJob
    /\ j_pc = "create"
    /\ idx = 0
    /\ running_jobs = <<NotRunning>>
    /\ cancels = <<>>
    /\ started = <<>>
    /\ IdleRetry
    /\ IdleMerge
    /\ IdlePipe
    /\ IdleApi
    /\ IdleWhisper
    /\ s3 = <<>>
    /\ final = NoObject
    /\ episode = NewEpisode

\* create_job on the parsed feed: raises on an empty feed and when the sort
\* raises, otherwise inserts the job document.
create_job ==
    /\ j_pc = "create"
    /\ IF rss_feed = <<>> \/ SortRaises(rss_feed)
         THEN /\ j_pc' = "create raised"
              /\ UNCHANGED jobs_collection
         ELSE /\ jobs_collection' =
                    JobDocument(Limited(SortByDate(rss_feed), max_episodes))
              /\ j_pc' = "created"
    /\ UNCHANGED <<job, idx, running_jobs, cancels, started>>
    /\ UNCHANGED <<retryVars, mergeVars, storeVars, pipeVars, apiVars, fnVars, whVars>>

NextCreate == create_job

SpecCreate == InitCreate /\ [][NextCreate]_vars

(***************************************************************************)
(* The transcription handler (whisper-lambda lambda_handler), invoked on   *)
(* its own with one event.  A field of the event is absent, null, or has   *)
(* a value; the environment may supply S3_BUCKET.                          *)
(***************************************************************************)
Absent == [kind |-> "absent"]
Null == [kind |-> "null"]
Value(v) == [kind |-> "value", v |-> v]

\* dict.get(key, default): a key that is present with null yields null.
Get(field, default) == IF field = Absent THEN default ELSE field

\* Python's truth value of a string or None.
Truthy(field) == field.kind = "value" /\ field.v # ""

WhisperEvents ==
    [episode_id : {Absent, Null, Value(""), Value(EPISODE_ID)},
     chunk_index : {Absent, Null} \cup {Value(i) : i \in 0..MaxIndex},
     s3_key : {Absent, Value(""), Value("chunks/ep1/chunk.mp3")},
     s3_bucket : {Absent, Null, Value(S3_AUDIO_BUCKET)}]

Environs == {Null, Value("env-bucket")}

WhisperFaults == {"none", "download", "transcribe", "upload"}

NoCalls == [download |-> 0, transcribe |-> 0, upload |-> 0]

\* The validation with chunk_index tested for its truth value.
MissingParametersTruthy(event, environ) ==
    ~ /\ Truthy(Get(event.episode_id, Null))
      /\ LET chunk_index == Get(event.chunk_index, Null)
         IN  chunk_index.kind = "value" /\ chunk_index.v # 0
      /\ Truthy(Get(event.s3_key, Null))
      /\ Truthy(Get(event.s3_bucket, environ))

\* `not all([episode_id, chunk_index is not None, s3_key, s3_bucket])`
MissingParameters(event, environ) ==
    ~ /\ Truthy(Get(event.episode_id, Null))
      /\ Get(event.chunk_index, Null) # Null
      /\ Truthy(Get(event.s3_key, Null))
      /\ Truthy(Get(event.s3_bucket, environ))

\* lambda_handler(event, context) under environment `environ`, where the
\* step named by `fault` raises: the response and the calls made.
whisper_lambda_handler(event, environ, fault) ==
    LET episode_id == Get(event.episode_id, Null)
        chunk_index == Get(event.chunk_index, Null)
        failure(made) ==
            [response |-> [status |-> "error", episode_id |-> episode_id,
                           chunk_index |-> chunk_index,
                           transcript_s3_key |-> Null,
                           error_message |-> Value(fault)],
             calls |-> made]
    IN  IF MissingParameters(event, environ)
          THEN [response |-> [status |-> "error", episode_id |-> episode_id,
                              chunk_index |-> chunk_index,
                              transcript_s3_key |-> Absent,
                              error_message |-> Value("Missing required parameters")],
                calls |-> NoCalls]
          ELSE CASE fault = "download" ->
                      failure([NoCalls EXCEPT !.download = 1])
                 [] fault = "transcribe" ->
                      failure([NoCalls EXCEPT !.download = 1, !.transcribe = 1])
                 [] fault = "upload" ->
                      failure([download |-> 1, transcribe |-> 1, upload |-> 1])
                 [] OTHER ->
                      [response |-> [status |-> "success", episode_id |-> episode_id,
                                     chunk_index |-> chunk_index,
                                     transcript_s3_key |->
                                         Value(<<"transcripts", episode_id.v,
                                                 chunk_index.v>>),
                                     error_message |-> Absent],
                       calls |-> [download |-> 1, transcribe |-> 1, upload |-> 1]]

InitWhisper ==
    /\ w_pc = "request"
    /\ w_event \in WhisperEvents
    /\ w_environ \in Environs
    /\ w_fault \in WhisperFaults
    /\ w_calls = NoCalls
    /\ w_response = NoResponse
    /\ s3 = <<>>
    /\ final = NoObject
    /\ episode = NewEpisode
    /\ IdleRetry
    /\ IdleMerge
    /\ IdlePipe
    /\ IdleJob
    /\ IdleApi
    /\ IdleFn

WhisperInvoke ==
    /\ w_pc = "request"
    /\ LET r == whisper_lambda_handler(w_event, w_environ, w_fault)
       IN  /\ w_response' = r.response
           /\ w_calls' = r.calls
    /\ w_pc' = "responded"
    /\ UNCHANGED <<w_event, w_environ, w_fault>>
    /\ UNCHANGED <<retryVars, mergeVars, storeVars, pipeVars, jobVars, apiVars, fnVars>>

NextWhisper == WhisperInvoke

SpecWhisper == InitWhisper /\ [][NextWhisper]_vars

(***************************************************************************)
(* Properties of the retry policy (SpecRetry)                              *)
(***************************************************************************)
IsFailure(h) == h.kind = "error"
Retryable(h) == IsFailure(h) /\ (IsRateLimit(h) \/ IsServiceTimeout(h))
Fatal(h) == IsFailure(h) /\ ~IsRateLimit(h) /\ ~IsServiceTimeout(h)
Attempts == Len(history)
AllRetryable(n) == \A j \in 1..n : Retryable(history[j])

\* C8: when attempts 1..m-1 fail with retryable errors and attempt m
\* succeeds, the function returns the success result, the sleep after
\* zero-based attempt k is INITIAL_RETRY_DELAY * 2^k, and the total slept is
\* INITIAL_RETRY_DELAY * (2^0 + ... + 2^(m-2)).
C8_RetryBackoff ==
    /\ \A k \in 0..(Len(slept) - 1) :
            slept[k + 1] = INITIAL_RETRY_DELAY * Pow2(k)
    /\ (Attempts >= 1 /\ history[Attempts] = Success /\ AllRetryable(Attempts - 1))
        => /\ r_pc = "returned"
           /\ r_raised = NoError
           /\ Len(slept) = Attempts - 1
           /\ SumSeq(slept) = INITIAL_RETRY_DELAY * (Pow2(Attempts - 1) - 1)

C8_Witness ==
    /\ r_pc = "returned"
    /\ Attempts = 3
    /\ slept = <<INITIAL_RETRY_DELAY, 2 * INITIAL_RETRY_DELAY>>

\* C9: a fatal error (no rate-limit, 429, timeout or 503 signal) ends the
\* loop on the attempt it occurs in: it is the last attempt made, it is the
\* error raised, and nothing is slept after it; a fatal error on the first
\* attempt means exactly one attempt and no sleep.
C9_FatalAborts ==
    \A j \in 1..Attempts :
        Fatal(history[j]) =>
            /\ j = Attempts
            /\ r_pc = "raised"
            /\ r_raised = history[j]
            /\ Len(slept) = j - 1

C9_Witness ==
    /\ Attempts = 2
    /\ Fatal(history[2])
    /\ r_pc = "raised"
    /\ slept = <<INITIAL_RETRY_DELAY>>

\* C10 as stated: the call is attempted at most maxAttempts = MAX_RETRIES (3)
\* times, and a run of retryable failures ends after exactly that many.
C10_AtMostMaxRetriesAttempts ==
    /\ Attempts <= MAX_RETRIES
    /\ (r_pc = "raised" /\ AllRetryable(Attempts)) => Attempts = MAX_RETRIES

\* C10 amended: the call is attempted at most MAX_RETRIES + 1 (4) times; when
\* every attempt fails with a retryable error the loop ends after exactly
\* MAX_RETRIES + 1 attempts and raises the error of the last attempt.
C10_AtMostMaxRetriesPlusOne ==
    /\ Attempts <= MAX_RETRIES + 1
    /\ attempt <= MAX_RETRIES
    /\ (r_pc = "raised" /\ AllRetryable(Attempts))
        => /\ Attempts = MAX_RETRIES + 1
           /\ r_raised = history[Attempts]
    /\ (Attempts = MAX_RETRIES + 1 /\ AllRetryable(Attempts)) => r_pc = "raised"

C10_Witness ==
    /\ r_pc = "raised"
    /\ Attempts = MAX_RETRIES + 1
    /\ AllRetryable(Attempts)
    /\ history[Attempts] # history[1]

(***************************************************************************)
(* Properties of the merge handler (SpecMerge)                             *)
(***************************************************************************)
IndexSet(ts) == Range(Indices(ts))
IsBody(t) == t.k \notin {"nl", "ts"}

\* The stripped texts of chunks 0..n-1, in that order.
RECURSIVE TextsInOrder(_, _, _)
TextsInOrder(store, i, n) ==
    IF i >= n THEN <<>>
    ELSE Strip(store[i]) \o TextsInOrder(store, i + 1, n)

WellFormed(ev) ==
    /\ ev.episode_id # ""
    /\ ev.s3_bucket # ""
    /\ ev.transcripts # <<>>

Contiguous(ts) == IndexSet(ts) = 0 .. (Len(ts) - 1)

\* C5: given the transcripts of chunks 0..N-1 (N >= 1) in any order, the
\* merge handler completes and the final transcript holds the text of each
\* chunk exactly once, in ascending chunk_index order.
C5_MergedInIndexOrder ==
    (/\ m_pc = "responded"
     /\ WellFormed(m_event)
     /\ Contiguous(m_event.transcripts)
     /\ m_fault = NoFault)
        => /\ m_response.status = "completed"
           /\ final # NoObject
           /\ SelectSeq(final, IsBody)
                = TextsInOrder(s3, 0, Len(m_event.transcripts))

C5_Witness ==
    /\ m_pc = "responded"
    /\ m_response.status = "completed"
    /\ Indices(m_event.transcripts) = <<2, 0, 1>>
    /\ \A i \in 0..2 : Strip(s3[i]) # <<>>

\* C6: a request whose chunk_index values are not exactly 0..n-1 for its n
\* transcripts (a gap, not starting at 0, a duplicated index) is answered
\* with status "error" and no final transcript is uploaded.
C6_RejectsNonContiguous ==
    (m_pc = "responded" /\ ~Contiguous(m_event.transcripts))
        => /\ m_response.status = "error"
           /\ final = NoObject

C6_Witness ==
    /\ m_pc = "responded"
    /\ WellFormed(m_event)
    /\ Indices(m_event.transcripts) = <<1, 2>>
    /\ m_response.error_message = "Missing chunks"
    /\ m_response.missing = {0}

\* C7: a request declaring total_chunks = N with fewer than N transcripts is
\* answered with status "error" and no final transcript is uploaded.
C7_RejectsFewerThanTotal ==
    (m_pc = "responded" /\ Len(m_event.transcripts) < m_event.total_chunks)
        => /\ m_response.status = "error"
           /\ final = NoObject

(***************************************************************************)
(* Properties of transcribe_episode (Spec)                                 *)
(***************************************************************************)
Finished(j) == j \in DOMAIN task /\ task[j] = "done"
\* The chunk's transcription ended in error: the call raised or the service
\* answered status "error".
InError(j) == Finished(j) /\ (gathered[j].kind = "exception" \/ gathered[j].status = "error")
InFlight == {j \in DOMAIN task : task[j] = "inflight"}
StagePassed == pc \in {"merging", "done"} /\ chunk_result.chunks # <<>>

\* C1: once any chunk's transcription has ended in error, the merge service
\* is never called in that run, no final transcript is stored, the episode
\* is never marked completed, and the run ends with status "failed" both
\* returned and persisted.
C1_NoMergeAfterChunkError ==
    (\E j \in DOMAIN task : InError(j))
        => /\ calls.merge = 0
           /\ ~merge_request.sent
           /\ final = NoObject
           /\ episode.transcript_status # "completed"
           /\ (pc = "done" => /\ ret.status = "failed"
                              /\ episode.transcript_status = "failed")

C1_Witness ==
    /\ pc = "done"
    /\ \E j \in DOMAIN task : InError(j)
    /\ \E j \in DOMAIN task : Finished(j) /\ gathered[j].status = "success"
    /\ ret.status = "failed"

\* C2: when the chunking service returns an empty chunk list the run ends
\* "failed" with the no-chunks message, and neither the whisper service nor
\* the merge service is ever called.
C2_NoChunksFails ==
    (chunk_result.kind = "ok" /\ chunk_result.chunks = <<>>)
        => /\ pc = "done"
           /\ ret.status = "failed"
           /\ episode.transcript_status = "failed"
           /\ episode.error_message.kind = "No chunks returned from chunking service"
           /\ calls.whisper = 0
           /\ calls.merge = 0
           /\ ~merge_request.sent

C2_Witness ==
    /\ pc = "done"
    /\ chunk_result.kind = "ok"
    /\ chunk_result.chunks = <<>>
    /\ calls.chunking = 1

\* C3: at most max_concurrent transcription calls are issued and unfinished
\* at any time.
C3_BoundedInFlight == Cardinality(InFlight) <= max_concurrent

C3_Witness ==
    /\ Cardinality(InFlight) = max_concurrent
    /\ \E j \in DOMAIN task : task[j] = "waiting"
    /\ \E j \in DOMAIN task : Finished(j)

\* C4: when the transcribe stage has reported, every chunk's call was issued
\* exactly once and has finished, and the stage's result list holds exactly
\* one result per chunk, at the chunk's position and with the chunk's index,
\* also when some chunk failed.
C4_NoFailFast ==
    StagePassed
        => /\ DOMAIN task = DOMAIN chunk_result.chunks
           /\ \A j \in DOMAIN task : Finished(j) /\ issued[j] = 1
           /\ calls.whisper = Len(chunk_result.chunks)
           /\ Len(transcription_results) = Len(chunk_result.chunks)
           /\ \A j \in DOMAIN transcription_results :
                /\ transcription_results[j].chunk_index = chunk_result.chunks[j].chunk_index
                /\ IsError(transcription_results[j]) <=> InError(j)

\* With one slot the calls are issued one after the other, so chunks 2 and 3
\* were issued after chunk 1 had failed.
C4_Witness ==
    /\ pc = "done"
    /\ max_concurrent = 1
    /\ Len(chunk_result.chunks) = 3
    /\ gathered[1].kind = "exception"
    /\ gathered[2].status = "success"
    /\ issued[3] = 1

\* The errors of the orchestrator's POST that the retry policy counts as
\* retryable: a timeout of the call, a rate limit, service unavailable.
RetryablePostErrors == {"timeout", "429", "503"}

\* C11: a chunk whose call from the orchestrator failed with a retryable
\* error is recorded as failed only after its call was attempted again.
C11_OrchestratorCallRetried ==
    \A j \in DOMAIN task :
        (Finished(j) /\ gathered[j].kind = "exception"
                     /\ gathered[j].error_message \in RetryablePostErrors)
            => issued[j] > 1

(***************************************************************************)
(* Properties of the bulk job (SpecJob)                                    *)
(***************************************************************************)
Total == jobs_collection.total_episodes
Entry(i) == jobs_collection.episodes[i + 1]
Finalized(i) == Entry(i).status \in {"completed", "failed"}

\* C12: the persisted counters satisfy processed_episodes =
\* successful_episodes + failed_episodes after every unit is finalized.
C12_CountersAdd ==
    jobs_collection.processed_episodes =
        jobs_collection.successful_episodes + jobs_collection.failed_episodes

\* A cancel_job call that flipped the running job's flag while unit c.idx
\* was in progress or during the pacing delay after it.
FlippedDuringUnit(c) ==
    c.result /\ c.svc = RunnerService /\ c.j_pc \in {"unit", "sleep"}

\* C13: after the flag was flipped during unit i with units remaining, no
\* unit after i is ever started, the units after i stay pending, and the job
\* ends "cancelled" with unit i recorded as completed or failed.
C13_CancelStopsAfterCurrentUnit ==
    \A k \in DOMAIN cancels :
        (FlippedDuringUnit(cancels[k]) /\ cancels[k].idx + 1 < Total)
            => LET i == cancels[k].idx
               IN  /\ \A u \in Range(started) : u <= i
                   /\ \A u \in (i + 1)..(Total - 1) : Entry(u).status = "pending"
                   /\ j_pc \in {"unit", "sleep", "ended", "raised"}
                   /\ j_pc = "ended" => /\ jobs_collection.status = "cancelled"
                                        /\ Finalized(i)

C13_Witness ==
    /\ j_pc = "ended"
    /\ jobs_collection.status = "cancelled"
    /\ Total = 3
    /\ \E k \in DOMAIN cancels :
          FlippedDuringUnit(cancels[k]) /\ cancels[k].idx = 0 /\ cancels[k].j_pc = "unit"
    /\ Entry(0).status = "completed"
    /\ Entry(1).status = "pending"

\* C14: a request to the cancel route made while the job is running reaches
\* the running job's flag: cancel_job returns true.
C14_RouteCancelReachesRunningJob ==
    \A k \in DOMAIN cancels :
        (cancels[k].via = "route" /\ cancels[k].active) => cancels[k].result

\* What a cancel_job call that is a no-op leaves of running_jobs: the
\* entries of the instances that existed, and nothing registered on a new one.
FlagsKept ==
    \A svc \in DOMAIN running_jobs' :
        running_jobs'[svc] =
            IF svc \in DOMAIN running_jobs THEN running_jobs[svc] ELSE NotRunning

CancelStep ==
    Len(cancels') = Len(cancels) + 1
        => LET c == cancels'[Len(cancels')]
           IN  /\ c.result => Active
               /\ ~Active => /\ ~c.result
                             /\ FlagsKept
                             /\ UNCHANGED <<jobs_collection, job, j_pc, idx, started>>

\* C15: cancel_job returns false and changes nothing when the job is not
\* running (never started, completed, cancelled); it returns true only while
\* process_job is active.
C15_CancelOnlyWhileActive == [][CancelStep]_vars

C15_Witness ==
    /\ Len(cancels) = 2
    /\ cancels[1].result
    /\ cancels[1].active
    /\ ~cancels[2].result
    /\ cancels[2].j_pc = "ended"
    /\ cancels[2].svc = RunnerService
    /\ jobs_collection.status = "cancelled"

\* C16: cancel_job called when no unit remains to be started (the last unit
\* is in progress, or the pacing delay after it, or the job has ended)
\* returns false.
C16_CancelWithNothingLeftIsNoOp ==
    \A k \in DOMAIN cancels :
        (\/ cancels[k].j_pc = "ended"
         \/ cancels[k].j_pc \in {"unit", "sleep"} /\ cancels[k].idx + 1 = Total)
            => ~cancels[k].result

Cancelled == \E k \in DOMAIN cancels : cancels[k].result

\* C20: a unit that fails is recorded as failed with its error and never
\* puts the job in status "failed" (only an error of the job itself does);
\* unless the job is cancelled, the job goes through every unit in order and
\* ends "completed".
C20_UnitFailureIsLocal ==
    /\ \A i \in 0..(Total - 1) :
          Entry(i).status = "failed" => Entry(i).error_message # NoErrorMessage
    /\ jobs_collection.status = "failed" => j_pc = "raised"
    /\ (j_pc = "ended" /\ ~Cancelled)
          => /\ jobs_collection.status = "completed"
             /\ started = [u \in 1..Total |-> u - 1]
             /\ \A i \in 0..(Total - 1) : Finalized(i)

C20_Witness ==
    /\ j_pc = "ended"
    /\ ~Cancelled
    /\ Total = 3
    /\ Entry(0).status = "failed"
    /\ Entry(0).error_message = "whisper raised"
    /\ Entry(1).status = "completed"
    /\ Entry(2).status = "failed"
    /\ Entry(2).error_message = "No audio URL found for episode"

(***************************************************************************)
(* Properties of the transcription routes (SpecApi)                        *)
(***************************************************************************)
Running == {k \in DOMAIN runs : runs[k] = "running"}
Terminal(status) == status \in {"completed", "failed"}
Answered(op) ==
    /\ Len(responses') = Len(responses) + 1
    /\ responses'[Len(responses')].op = op

TerminalStep ==
    (Terminal(episode.transcript_status)
        /\ episode'.transcript_status # episode.transcript_status)
            => /\ Answered("retry")
               /\ episode'.transcript_status = "pending"

\* C18: an episode whose transcript_status is completed or failed changes
\* status only by the retry route, which moves it to pending.
C18_TerminalLeftOnlyByRetry == [][TerminalStep]_vars

StartOnCompletedStep ==
    (Answered("start") /\ episode.transcript_status = "completed")
        => /\ episode' = episode
           /\ runs' = runs
           /\ executions' = executions
           /\ responses'[Len(responses')].answer \in {"already_completed", "400"}

StageErrorKinds ==
    {"Chunking failed", "chunking request raised", "Merge failed", "merge request raised"}

\* C25: the chunking service is called exactly once and the merge service at
\* most once in a run; when either reports an error or its call raises, the
\* run is over with status "failed" returned and persisted with that error,
\* and no further call is made to any service.
C25_StageErrorsFailAtOnce ==
    /\ calls.chunking = (IF pc = "start" THEN 0 ELSE 1)
    /\ calls.merge <= 1
    /\ chunk_result.kind \in {"error", "raised"}
          => /\ pc = "done"
             /\ ret.status = "failed"
             /\ episode.transcript_status = "failed"
             /\ ret.error_message.kind \in {"Chunking failed", "chunking request raised"}
             /\ episode.error_message = ret.error_message
             /\ calls = [chunking |-> 1, whisper |-> 0, merge |-> 0]
    /\ (pc = "done" /\ merge_request.sent)
          => /\ calls = [chunking |-> 1, whisper |-> Len(chunk_result.chunks),
                         merge |-> 1]
             /\ \/ ret.status = "completed" /\ final # NoObject
                \/ /\ ret.status = "failed"
                   /\ episode.transcript_status = "failed"
                   /\ ret.error_message.kind \in {"Merge failed", "merge request raised"}
                   /\ episode.error_message = ret.error_message
    /\ (pc = "done" /\ final = NoObject) => ret.status = "failed"

C25_Witness ==
    /\ pc = "done"
    /\ chunk_result.kind = "raised"
    /\ ret.status = "failed"
    /\ calls = [chunking |-> 1, whisper |-> 0, merge |-> 0]

Stages == {"chunking", "transcribing", "merging"}

StageEntryStep ==
    (pc' # pc /\ pc' \in Stages) => episode' # episode

\* C26: the persisted episode status is written at the entry of every stage
\* (chunk, transcribe, merge), so that the stored document tells the stage
\* entered last.
C26_StatusWrittenAtStageEntry == [][StageEntryStep]_vars

\* The chunk_index values of the chunks whose transcription ended in error.
FailedChunkIndices == {chunk_result.chunks[j].chunk_index : j \in {i \in DOMAIN task : InError(i)}}

\* C28: when the transcribe stage fails, the indices reported are exactly the
\* chunk_index values of the chunks whose call raised or answered status
\* "error", each once; a run with such a chunk ends with that report.
C28_FailedIndicesExact ==
    /\ (pc = "done" /\ \E j \in DOMAIN task : InError(j))
          => ret.error_message.kind = "Transcription failed for chunks"
    /\ (pc = "done" /\ ret.status = "failed"
          /\ ret.error_message.kind = "Transcription failed for chunks")
          => /\ Range(ret.error_message.indices) = FailedChunkIndices
             /\ Len(ret.error_message.indices) = Cardinality(FailedChunkIndices)
             /\ FailedChunkIndices # {}
             /\ episode.error_message = ret.error_message

\* Chunks 0 and 2 failed, chunk 2 first; chunk 1 succeeded.
C28_Witness ==
    /\ pc = "done"
    /\ Len(chunk_result.chunks) = 3
    /\ gathered[1].kind = "exception"
    /\ gathered[2].status = "success"
    /\ gathered[3].kind = "response"
    /\ gathered[3].status = "error"
    /\ ret.error_message.indices = <<0, 2>>

(***************************************************************************)
(* Further properties of the transcription routes (SpecApi)                *)
(***************************************************************************)
\* C27: whenever the episode's transcript_status is "failed", an error
\* message is stored with it.
C27_FailedHasErrorMessage ==
    episode.transcript_status = "failed" => episode.error_message # NoMessage

(***************************************************************************)
(* Properties of create_chunks (SpecChunk)                                 *)
(***************************************************************************)
ChunksReturned == chunks_metadata.status = "returned"

\* C30: create_chunks returns chunks 0..N-1 in index order with N =
\* ceil(total / D); chunk i covers [i*D, min((i+1)*D, total)), so consecutive
\* chunks meet without gap or overlap, none is empty, together they cover
\* [0, total), and audio of zero length gives the empty list.
C30_ChunksPartitionAudio ==
    ChunksReturned
        => LET chunks == chunks_metadata.chunks
               N == Len(chunks)
           IN  /\ N * CHUNK_DURATION_MS >= audio
               /\ (N - 1) * CHUNK_DURATION_MS < audio \/ N = 0
               /\ audio = 0 => chunks = <<>>
               /\ \A j \in 1..N :
                    /\ chunks[j].chunk_index = j - 1
                    /\ chunks[j].start_ms = (j - 1) * CHUNK_DURATION_MS
                    /\ chunks[j].end_ms =
                          (IF j * CHUNK_DURATION_MS < audio
                             THEN j * CHUNK_DURATION_MS ELSE audio)
                    /\ chunks[j].start_ms < chunks[j].end_ms
               /\ \A j \in 1..(N - 1) : chunks[j].end_ms = chunks[j + 1].start_ms
               /\ N > 0 => chunks[1].start_ms = 0 /\ chunks[N].end_ms = audio

\* Two full chunks and a last one of a single millisecond.
C30_Witness ==
    /\ ChunksReturned
    /\ audio = 2 * CHUNK_DURATION_MS + 1
    /\ Len(chunks_metadata.chunks) = 3
    /\ chunks_metadata.chunks[3].end_ms = audio

(***************************************************************************)
(* Properties of create_job (SpecCreate)                                   *)
(***************************************************************************)
Min(a, b) == IF a < b THEN a ELSE b
DateOf(entry) == rss_feed[entry.title].published_date
Kept == {jobs_collection.episodes[k].title : k \in DOMAIN jobs_collection.episodes}

\* C29: for a feed of n >= 1 episodes create_job persists a pending job with
\* counters 0 and min(n, max_episodes) entries (n without a limit), the
\* oldest episodes in ascending date order, each pending; for an empty feed
\* it raises and persists nothing.
C29_CreateJobKeepsOldest ==
    j_pc # "create"
        => IF rss_feed = <<>>
             THEN j_pc = "create raised" /\ jobs_collection = NoJob
             ELSE /\ j_pc = "created"
                  /\ jobs_collection.status = "pending"
                  /\ jobs_collection.processed_episodes = 0
                  /\ jobs_collection.successful_episodes = 0
                  /\ jobs_collection.failed_episodes = 0
                  /\ jobs_collection.total_episodes = Len(jobs_collection.episodes)
                  /\ Len(jobs_collection.episodes) =
                        (IF max_episodes = NoLimit THEN Len(rss_feed)
                           ELSE Min(Len(rss_feed), max_episodes))
                  /\ Cardinality(Kept) = Len(jobs_collection.episodes)
                  /\ \A k \in DOMAIN jobs_collection.episodes :
                        LET entry == jobs_collection.episodes[k]
                        IN  /\ entry.status = "pending"
                            /\ entry.audio_url = rss_feed[entry.title].audio_url
                            /\ \A l \in DOMAIN jobs_collection.episodes :
                                  k < l => DateOf(entry) <= DateOf(jobs_collection.episodes[l])
                            /\ \A i \in DOMAIN rss_feed :
                                  i \notin Kept => DateOf(entry) <= rss_feed[i].published_date


(***************************************************************************)
(* Properties of a bulk job under database failures                        *)
(***************************************************************************)
\* Whether process_job has returned or let an exception out.
Terminated == j_pc \in {"ended", "raised"}

\* C21: once process_job has terminated, the job is not left "running" and
\* no progress entry is left "processing"; when it terminated because of an
\* error that the unit's except branch did not handle, the job is "failed".
C21_FailClosed ==
    Terminated
        => /\ jobs_collection.status # "running"
           /\ \A i \in 0..(Total - 1) : Entry(i).status # "processing"
           /\ j_pc = "raised" => jobs_collection.status = "failed"

FinalJobStatuses == {"completed", "cancelled", "failed"}

\* A step of the job's persisted status along
\* pending -> running -> {completed | cancelled | failed}.
StatusChainStep ==
    LET old == jobs_collection.status
        new == jobs_collection'.status
    IN  \/ new = old
        \/ old = "pending" /\ new = "running"
        \/ old = "running" /\ new \in FinalJobStatuses

\* C22 as stated: the status moves only along the chain, a final status
\* never changes, and "paused" is never reached.
C22_StatusChain == [][StatusChainStep /\ jobs_collection'.status # "paused"]_vars

\* C22 amended: as above, and a job whose first write raises goes from
\* "pending" to "failed" without having been "running".
C22_StatusChainOrFailedAtStart ==
    [][/\ \/ StatusChainStep
          \/ /\ jobs_collection.status = "pending"
             /\ jobs_collection'.status = "failed"
       /\ jobs_collection'.status # "paused"]_vars

C22_Witness ==
    /\ j_pc = "raised"
    /\ job = NoJob
    /\ jobs_collection.status = "failed"

\* C23: at most one progress entry is "processing", every entry before an
\* entry that has left "pending" is "completed" or "failed", and every entry
\* after a "processing" entry is "pending".
C23_UnitsInOrder ==
    /\ \A u, v \in 0..(Total - 1) :
          (Entry(u).status = "processing" /\ Entry(v).status = "processing")
              => u = v
    /\ \A u, v \in 0..(Total - 1) :
          (u < v /\ Entry(v).status # "pending") => Finalized(u)

C23_Witness ==
    /\ j_pc = "unit"
    /\ Total = 3
    /\ Entry(0).status = "failed"
    /\ Entry(1).status = "processing"
    /\ Entry(2).status = "pending"


\* No cancel_job call has returned True.
NotCancelled == \A k \in DOMAIN cancels : ~cancels[k].result

JobCompleted ==
    /\ jobs_collection.status = "completed"
    /\ jobs_collection.processed_episodes = jobs_collection.total_episodes
    /\ jobs_collection.current_episode = NoTitle
    /\ jobs_collection.completed_at

\* C24: a job that is never cancelled and whose process_job lets no
\* exception reach its outer except is eventually "completed", with
\* processed_episodes = total_episodes, current_episode cleared and
\* completed_at set, however many of its units failed.
C24_UncancelledJobCompletes ==
    [](NotCancelled /\ j_pc # "raised") => <>JobCompleted

C24_Witness ==
    /\ j_pc = "ended"
    /\ NotCancelled
    /\ JobCompleted
    /\ Total = 3
    /\ \A i \in 0..(Total - 1) : Entry(i).status = "failed"


(***************************************************************************)
(* Properties of the end of a bulk job                                     *)
(***************************************************************************)
\* C36: a job for which a cancel_job call returned True ends with the
\* persisted status "cancelled".
C36_AcceptedCancelEndsCancelled ==
    (j_pc = "ended" /\ Cancelled) => jobs_collection.status = "cancelled"

\* C37: an instance's running_jobs holds the job exactly while process_job
\* runs on that instance; no entry is left after any exit of process_job.
C37_RegisteredWhileActive ==
    \A svc \in DOMAIN running_jobs :
        running_jobs[svc].present <=> (svc = RunnerService /\ Active)

C37_Witness ==
    /\ j_pc = "raised"
    /\ jobs_collection.status = "running"
    /\ Cancelled
    /\ ~running_jobs[RunnerService].present

\* C38: a job whose persisted status is completed, cancelled or failed has
\* no current_episode.
C38_FinishedJobNamesNoUnit ==
    jobs_collection.status \in FinalJobStatuses
        => jobs_collection.current_episode = NoTitle

FinalizedCount == Cardinality({i \in 0..(Total - 1) : Finalized(i)})

\* C39: processed_episodes never exceeds total_episodes and never
\* decreases, and once the pass of a unit is over (process_job is in the
\* pacing delay or has terminated) it equals the number of entries that are
\* "completed" or "failed".
C39_ProcessedCountsFinalized ==
    [][/\ jobs_collection'.processed_episodes <= jobs_collection'.total_episodes
       /\ jobs_collection'.processed_episodes >= jobs_collection.processed_episodes
       /\ j_pc' \in {"sleep", "ended", "raised"}
             => jobs_collection'.processed_episodes = FinalizedCount']_vars


(***************************************************************************)
(* Properties of the transcription handler (SpecWhisper)                   *)
(***************************************************************************)
\* The handler returned status "error" without a download and without a
\* transcription.
Rejected ==
    /\ w_response.status = "error"
    /\ w_calls.download = 0
    /\ w_calls.transcribe = 0

\* Whether the request itself carries a usable value for the field.
InRequest(field) == Truthy(Get(field, Null))

\* A request with all four fields and chunk_index = 0 is not rejected for
\* its fields, and every invocation returns "success" or "error".
ZeroAcceptedAndAlwaysAnswered ==
    /\ (/\ InRequest(w_event.episode_id)
        /\ w_event.chunk_index = Value(0)
        /\ InRequest(w_event.s3_key)
        /\ InRequest(w_event.s3_bucket)) => w_calls.download = 1
    /\ w_response.status \in {"success", "error"}

\* C31 as stated: a request missing episode_id, chunk_index, s3_key or
\* s3_bucket is rejected without a download or a transcription,
\* chunk_index = 0 counts as present, and the handler always returns
\* "success" or "error".
C31_RejectsIncompleteRequest ==
    w_pc = "responded"
        => /\ (\/ ~InRequest(w_event.episode_id)
               \/ w_event.chunk_index \in {Absent, Null}
               \/ ~InRequest(w_event.s3_key)
               \/ ~InRequest(w_event.s3_bucket)) => Rejected
           /\ ZeroAcceptedAndAlwaysAnswered

\* C31 amended: s3_bucket counts as missing when the request has no
\* s3_bucket key and the environment has no S3_BUCKET, or when the request
\* carries it as null.
C31_RejectsIncompleteRequestOrNoBucket ==
    w_pc = "responded"
        => /\ (\/ ~InRequest(w_event.episode_id)
               \/ w_event.chunk_index \in {Absent, Null}
               \/ ~InRequest(w_event.s3_key)
               \/ w_event.s3_bucket = Null
               \/ w_event.s3_bucket = Absent /\ w_environ = Null) => Rejected
           /\ ZeroAcceptedAndAlwaysAnswered

C31_Witness ==
    /\ w_pc = "responded"
    /\ w_event.s3_bucket = Absent
    /\ w_environ # Null
    /\ w_event.chunk_index = Value(0)
    /\ w_response.status = "success"
    /\ w_calls.transcribe = 1


(***************************************************************************)
(* Properties of the retry route (SpecApi)                                 *)
(***************************************************************************)
\* The request leaves the record alone and launches nothing.
RetryRejected == episode' = episode /\ runs' = runs

\* The request resets the record and launches one run.
RetryLaunches ==
    /\ episode'.transcript_status = "pending"
    /\ episode'.error_message = NoMessage
    /\ runs' = Append(runs, "scheduled")

C33_MergeRequestCoversAllChunks ==
    merge_request.sent
        => /\ Len(merge_request.payload.transcripts) = Len(chunk_result.chunks)
           /\ Len(merge_request.payload.transcripts) = merge_request.payload.total_chunks

\* C34: an episode that transcribe_episode marked "completed" has a
\* transcript_s3_key.
C34_CompletedHasTranscriptKey ==
    episode.transcript_status = "completed" => episode.transcript_s3_key # ""

C34_Witness ==
    /\ pc = "done"
    /\ episode.transcript_status = "completed"
    /\ episode.transcript_s3_key = FINAL_KEY
    /\ calls.merge = 1

\* C35: transcribe_episode returns in the end, with status "completed" or
\* "failed", which is the transcript_status it persisted.
C35_ReturnsPersistedStatus ==
    /\ [](pc = "done" => /\ ret.status \in {"completed", "failed"}
                         /\ ret.status = episode.transcript_status)
    /\ <>(pc = "done")

C35_Witness ==
    /\ pc = "done"
    /\ calls.merge = 1
    /\ ret.status = "failed"
    /\ ret.error_message = Message("merge request raised")
    /\ episode.transcript_status = "failed"

====
